---------------------------- MODULE Spec2Model ----------------------------
(***************************************************************************)
(* FavURL bookmark manager: the chunked storage codec (storageManager.js), *)
(* the data validator (shared.js) and the popup's BookmarkManager          *)
(* (latest popup.js) over a model of chrome.storage.sync.                  *)
(*                                                                         *)
(* Two specifications:                                                     *)
(*   CodecSpec  saveDataToStorage / loadDataFromStorage applied to inputs  *)
(*              drawn from bounded sets, over arbitrary prior stores;      *)
(*   Spec       one popup instance (BookmarkManager) and its handlers.     *)
(***************************************************************************)
EXTENDS Integers, Sequences, FiniteSets, TLC

VARIABLES
    store,      \* contents of chrome.storage.sync
    groups,     \* BookmarkManager.groups (CodecSpec: the groups argument)
    urls,       \* BookmarkManager.urls   (CodecSpec: the urls argument)
    pc,         \* position of the instance: "new", "ready" (CodecSpec: "input", "saved", "failed", "loaded")
    lastOp,     \* the handler that ran last, with its outcome
    lastError,  \* message of the last showError / showToast / thrown error, "" when none
    loaded,     \* result of the last loadDataFromStorage
    prev        \* store and arguments as they were when saveDataToStorage was called

vars == <<store, groups, urls, pc, lastOp, lastError, loaded, prev>>

---------------------------------------------------------------------------
(* Bounds.  The code's 32 group slots and 400 URL slots are scaled down.   *)

GroupSlots == 2      \* group00..group31 in the source
UrlSlots == 2        \* url000..url399 in the source

\* chrome.storage.sync total quota, counted in stored records: the source's
\* 102400 bytes do not hold 32 groups and 400 URLs either.
QuotaRecords == GroupSlots + UrlSlots - 1

Absent == -1         \* a count marker that is not in the store

GroupIdx == 0 .. (GroupSlots - 1)
UrlIdx == 0 .. (UrlSlots - 1)

Min(a, b) == IF a < b THEN a ELSE b

Range(s) == { s[i] : i \in DOMAIN s }

\* Array.prototype.findIndex for the id: the first position holding it, 0 when none
FindIndexById(s, id) ==
    LET I == { i \in 1 .. Len(s) : s[i].id = id }
    IN  IF I = {} THEN 0 ELSE CHOOSE i \in I : \A j \in I : i <= j

\* Array.prototype.filter
Filter(s, Test(_)) == SelectSeq(s, Test)

\* Array.prototype.map
Map(s, F(_)) == [i \in 1 .. Len(s) |-> F(s[i])]

---------------------------------------------------------------------------
(* Entity models: GroupDataModel and URLDataModel.  A model instance is a  *)
(* record with the field isValidated; a plain (JSON) record has none.      *)

IsModel(r) == "isValidated" \in DOMAIN r

GroupToJSON(g) ==
    [id |-> g.id, name |-> g.name, isDefault |-> g.isDefault,
     protected |-> g.protected, urlCount |-> g.urlCount, order |-> g.order]

\* new GroupDataModel(data); order: data.order || 0, so a record persisted
\* without an order comes out with the order 0
GroupFromJSON(d) ==
    [id |-> d.id, name |-> d.name, isDefault |-> d.isDefault,
     protected |-> d.protected, urlCount |-> d.urlCount,
     order |-> IF "order" \in DOMAIN d THEN d.order ELSE 0,
     isValidated |-> FALSE]

createDefault ==
    [id |-> "ungrouped", name |-> "Ungrouped", isDefault |-> TRUE,
     protected |-> TRUE, urlCount |-> 0, order |-> 0, isValidated |-> FALSE]

\* GroupDataModel.validate: the name is required (ids are always present here)
GroupValidate(g) == [g EXCEPT !.isValidated = (g.name # "")]

URLToJSON(u) ==
    [id |-> u.id, url |-> u.url, title |-> u.title, groupId |-> u.groupId]

\* data.groupId || 'ungrouped': an empty groupId becomes the default group's
URLFromJSON(d) ==
    [id |-> d.id, url |-> d.url, title |-> d.title,
     groupId |-> IF d.groupId = "" THEN "ungrouped" ELSE d.groupId,
     isValidated |-> FALSE]

\* URLDataModel.validate: url, title, id and groupId are required
URLValidate(u) ==
    [u EXCEPT !.isValidated = (u.url # "" /\ u.title # "" /\ u.groupId # "")]

---------------------------------------------------------------------------
(* chrome.storage.sync.  A slot or legacy key holds << >> when absent and  *)
(* <<value>> when present.  urlsN is what the keys urls0..urls31 of the    *)
(* older per-group format hold, in key order.                              *)

EmptyStore ==
    [groupCount |-> Absent, urlCount |-> Absent,
     groups |-> << >>, urls |-> << >>, urlsN |-> << >>,
     group |-> [i \in GroupIdx |-> << >>],
     url |-> [i \in UrlIdx |-> << >>]]

\* number of records the store holds (its bytes in use, in records)
RECURSIVE SumLen(_, _)
SumLen(f, S) ==
    IF S = {} THEN 0
    ELSE LET i == CHOOSE x \in S : TRUE IN Len(f[i]) + SumLen(f, S \ {i})

BytesInUse(s) ==
    SumLen(s.group, GroupIdx) + SumLen(s.url, UrlIdx)
    + (IF s.groups = << >> THEN 0 ELSE Len(s.groups[1]))
    + (IF s.urls = << >> THEN 0 ELSE Len(s.urls[1]))
    + Len(s.urlsN)

\* variant of RemoveLegacy: the legacy keys are left in place
KeepLegacy(s) == s

\* chrome.storage.sync.remove(['urls', 'groups'])
RemoveLegacy(s) == [s EXCEPT !.groups = << >>, !.urls = << >>]

\* chrome.storage.sync.remove(cleanupKeys): group slots >= gc, URL slots >= uc
RemoveSlots(s, gc, uc) ==
    [s EXCEPT !.group = [i \in GroupIdx |-> IF i >= gc THEN << >> ELSE s.group[i]],
              !.url = [i \in UrlIdx |-> IF i >= uc THEN << >> ELSE s.url[i]]]

\* variant of SetKeys: the count markers are not written
SetSlotsOnly(s, data) ==
    [s EXCEPT !.group = [i \in GroupIdx |-> IF data.group[i] # << >> THEN data.group[i] ELSE s.group[i]],
              !.url = [i \in UrlIdx |-> IF data.url[i] # << >> THEN data.url[i] ELSE s.url[i]]]

\* chrome.storage.sync.set(data): every key of data replaces the stored one
SetKeys(s, data) ==
    [s EXCEPT !.groupCount = data.groupCount,
              !.urlCount = data.urlCount,
              !.group = [i \in GroupIdx |-> IF data.group[i] # << >> THEN data.group[i] ELSE s.group[i]],
              !.url = [i \in UrlIdx |-> IF data.url[i] # << >> THEN data.url[i] ELSE s.url[i]]]

\* the set is rejected when the result would exceed the quota
QuotaExceeded(s, data) == BytesInUse(SetKeys(s, data)) > QuotaRecords

---------------------------------------------------------------------------
(* storageManager.js                                                       *)

NotUngrouped(g) == g.id # "ungrouped"

GroupJSONIfModel(g) == IF IsModel(g) THEN GroupToJSON(g) ELSE g
URLJSONIfModel(u) == IF IsModel(u) THEN URLToJSON(u) ELSE u

\* variant of OtherGroupLimit: the loop stops one group early
OtherGroupLimitShort == GroupSlots - 2

\* how many of the other groups are written (i < otherGroups.length && i < 31)
OtherGroupLimit == GroupSlots - 1

\* variant of StorageData: the groups fill the slots in the order of the input
StorageDataInOrder(gs, us) ==
    LET groupsJSON == Map(gs, GroupJSONIfModel)
        urlsJSON == Map(us, URLJSONIfModel)
    IN  [groupCount |-> Min(Len(groupsJSON), GroupSlots),
         urlCount |-> Min(Len(urlsJSON), UrlSlots),
         group |-> [i \in GroupIdx |->
                      IF i < Len(groupsJSON) THEN <<groupsJSON[i + 1]>> ELSE << >>],
         url |-> [i \in UrlIdx |->
                      IF i < Len(urlsJSON) THEN <<urlsJSON[i + 1]>> ELSE << >>]]

\* storageData as built by saveDataToStorage (lines 131-154)
StorageData(gs, us) ==
    LET groupsJSON == Map(gs, GroupJSONIfModel)
        urlsJSON == Map(us, URLJSONIfModel)
        ungroupedIdx == FindIndexById(groupsJSON, "ungrouped")
        otherGroups == Filter(groupsJSON, NotUngrouped)
    IN  [groupCount |-> Min(Len(groupsJSON), GroupSlots),
         urlCount |-> Min(Len(urlsJSON), UrlSlots),
         group |-> [i \in GroupIdx |->
                      IF i = 0
                      THEN (IF ungroupedIdx # 0 THEN <<groupsJSON[ungroupedIdx]>> ELSE << >>)
                      ELSE (IF i - 1 < Len(otherGroups) /\ i - 1 < OtherGroupLimit
                            THEN <<otherGroups[i]>> ELSE << >>)],
         url |-> [i \in UrlIdx |->
                      IF i < Len(urlsJSON) THEN <<urlsJSON[i + 1]>> ELSE << >>]]

\* the message of the error saveDataToStorage throws on a quota rejection
QuotaMessage == "Storage limit reached. Consider deleting old bookmarks."

\* saveDataToStorage: the two removes, then the set; the store it leaves and
\* the message of the error it throws ("" when it returns)
saveDataToStorage(s, gs, us) ==
    LET data == StorageData(gs, us)
        removed == RemoveSlots(RemoveLegacy(s), data.groupCount, data.urlCount)
    IN  IF QuotaExceeded(removed, data)
        THEN [store |-> removed, error |-> QuotaMessage]
        ELSE [store |-> SetKeys(removed, data), error |-> ""]

\* does saveDataToStorage throw
SaveFails(s, gs, us) == saveDataToStorage(s, gs, us).error # ""

RECURSIVE CollectSlotsUntilGap(_, _, _)
\* variant of CollectSlots: the loop ends at the first slot that is absent
CollectSlotsUntilGap(f, i, n) ==
    IF i >= n \/ f[i] = << >> THEN << >> ELSE f[i] \o CollectSlotsUntilGap(f, i + 1, n)

RECURSIVE CollectSlots(_, _, _)
\* the records of the populated slots i .. n-1, in slot order
CollectSlots(f, i, n) ==
    IF i >= n THEN << >> ELSE f[i] \o CollectSlots(f, i + 1, n)

\* variant of CountOr: the count marker is ignored
CountIgnored(c, n) == n

\* result.groupCount || n
CountOr(c, n) == IF c = Absent \/ c = 0 THEN n ELSE c

\* variant of loadDataFromStorage: the legacy keys are not read
loadChunkedOnly(s) ==
    [groups |->
        IF CountOr(s.groupCount, 0) # 0 \/ s.group[0] # << >>
        THEN CollectSlots(s.group, 0, Min(CountOr(s.groupCount, 1), GroupSlots))
        ELSE << >>,
     urls |->
        IF CountOr(s.urlCount, 0) # 0 \/ s.url[0] # << >>
        THEN CollectSlots(s.url, 0, Min(CountOr(s.urlCount, 0), UrlSlots))
        ELSE << >>,
     metadata |->
        [groupCount |-> CountOr(s.groupCount, 0), urlCount |-> CountOr(s.urlCount, 0)]]

\* variant of loadDataFromStorage: a legacy key that is there is read first
loadLegacyFirst(s) ==
    [groups |->
        IF s.groups # << >> THEN s.groups[1]
        ELSE CollectSlots(s.group, 0, Min(CountOr(s.groupCount, 1), GroupSlots)),
     urls |->
        IF s.urls # << >> THEN s.urls[1]
        ELSE CollectSlots(s.url, 0, Min(CountOr(s.urlCount, 0), UrlSlots)),
     metadata |->
        [groupCount |-> CountOr(s.groupCount, 0), urlCount |-> CountOr(s.urlCount, 0)]]

\* loadDataFromStorage: each family from its slots when its count marker or its
\* slot 0 is there, else from the legacy array
loadDataFromStorage(s) ==
    [groups |->
        IF CountOr(s.groupCount, 0) # 0 \/ s.group[0] # << >>
        THEN CollectSlots(s.group, 0, Min(CountOr(s.groupCount, 1), GroupSlots))
        ELSE IF s.groups # << >> THEN s.groups[1] ELSE << >>,
     urls |->
        IF CountOr(s.urlCount, 0) # 0 \/ s.url[0] # << >>
        THEN CollectSlots(s.url, 0, Min(CountOr(s.urlCount, 0), UrlSlots))
        ELSE IF s.urls # << >> THEN s.urls[1] ELSE << >>,
     metadata |->
        [groupCount |-> CountOr(s.groupCount, 0), urlCount |-> CountOr(s.urlCount, 0)]]

\* nothing loaded yet
NothingLoaded ==
    [groups |-> << >>, urls |-> << >>, metadata |-> [groupCount |-> 0, urlCount |-> 0]]

---------------------------------------------------------------------------
(* Record pools the inputs and the persisted contents are drawn from.      *)

GroupIdPool == <<"g1", "g2", "g3", "g4", "g5", "g6">>
UrlIdPool == <<"u1", "u2", "u3", "u4", "u5", "u6">>
AddressPool == <<"https://a1/", "https://a2/", "https://a3/",
                 "https://a4/", "https://a5/", "https://a6/">>

\* enough non-default groups to overflow the slots without the default group
OtherGroupIds == { GroupIdPool[i] : i \in 1 .. (GroupSlots + 1) }
GroupIds == {"ungrouped"} \cup OtherGroupIds
UrlNumbers == 1 .. (UrlSlots + 1)

\* sequences without repetition over S, of length at most n
InjectiveSeqs(S, n) ==
    { q \in UNION { [1 .. k -> S] : k \in 0 .. n } :
        \A i, j \in DOMAIN q : i # j => q[i] # q[j] }

\* a group as the program creates it
NewGroup(id, name, order) ==
    IF id = "ungrouped" THEN createDefault
    ELSE [id |-> id, name |-> name, isDefault |-> FALSE, protected |-> FALSE,
          urlCount |-> 0, order |-> order, isValidated |-> FALSE]

\* a URL as the program creates it
NewURL(k, title, groupId) ==
    [id |-> UrlIdPool[k], url |-> AddressPool[k], title |-> title,
     groupId |-> groupId, isValidated |-> FALSE]

\* records left in the store by an earlier save
StaleGroup(i) ==
    [id |-> IF i = 0 THEN "ungrouped" ELSE GroupIdPool[i], name |-> "stale",
     isDefault |-> (i = 0), protected |-> (i = 0), urlCount |-> 1, order |-> i]

StaleURL(i) ==
    [id |-> UrlIdPool[i + 1], url |-> AddressPool[i + 1], title |-> "stale",
     groupId |-> "ungrouped"]

\* prior contents: the chunk families empty or fully populated, legacy keys or not
PriorStore(chunkedGroups, chunkedUrls, legacy) ==
    [groupCount |-> IF chunkedGroups THEN GroupSlots ELSE Absent,
     urlCount |-> IF chunkedUrls THEN UrlSlots ELSE Absent,
     groups |-> IF legacy THEN << <<StaleGroup(0)>> >> ELSE << >>,
     urls |-> IF legacy THEN << << >> >> ELSE << >>,
     urlsN |-> << >>,
     group |-> [i \in GroupIdx |-> IF chunkedGroups THEN <<StaleGroup(i)>> ELSE << >>],
     url |-> [i \in UrlIdx |-> IF chunkedUrls THEN <<StaleURL(i)>> ELSE << >>]]

\* those of them the quota admits
PriorStores ==
    { s \in { PriorStore(a, b, c) : a \in BOOLEAN, b \in BOOLEAN, c \in BOOLEAN } :
        BytesInUse(s) <= QuotaRecords }

---------------------------------------------------------------------------
(* CodecSpec: saveDataToStorage then loadDataFromStorage on drawn inputs   *)

Snapshot == [store |-> store, groups |-> groups, urls |-> urls]

CodecInit ==
    /\ store \in PriorStores
    /\ \E ids \in InjectiveSeqs(GroupIds, GroupSlots + 1), plain \in BOOLEAN :
          groups = [i \in 1 .. Len(ids) |->
                      IF plain THEN GroupToJSON(NewGroup(ids[i], ids[i], i))
                      ELSE NewGroup(ids[i], ids[i], i)]
    /\ \E ks \in InjectiveSeqs(UrlNumbers, UrlSlots + 1) :
          urls = [i \in 1 .. Len(ks) |-> NewURL(ks[i], "t", "ungrouped")]
    /\ pc = "input"
    /\ lastOp = "none"
    /\ lastError = ""
    /\ loaded = NothingLoaded
    /\ prev = [store |-> store, groups |-> groups, urls |-> urls]

\* StorageManager.saveDataToStorage(groups, urls)
CodecSave ==
    /\ pc = "input"
    /\ prev' = Snapshot
    /\ LET r == saveDataToStorage(store, groups, urls)
       IN  /\ store' = r.store
           /\ lastError' = r.error
           /\ IF r.error # ""
              THEN pc' = "failed" /\ lastOp' = "save_quota"
              ELSE pc' = "saved" /\ lastOp' = "save_ok"
    /\ UNCHANGED <<groups, urls, loaded>>

\* StorageManager.loadDataFromStorage()
CodecLoad ==
    /\ pc \in {"saved", "failed"}
    /\ loaded' = loadDataFromStorage(store)
    /\ pc' = "loaded"
    /\ UNCHANGED <<store, groups, urls, lastOp, lastError, prev>>

CodecNext == CodecSave \/ CodecLoad

CodecSpec == CodecInit /\ [][CodecNext]_vars

---------------------------------------------------------------------------
(* shared.js: the data validator                                           *)

RECURSIVE SumSeq(_)
SumSeq(q) == IF q = << >> THEN 0 ELSE Head(q) + SumSeq(Tail(q))

\* groups.find(g => g.id === id) finds something
GroupExists(gs, id) == FindIndexById(gs, id) # 0

\* every count is reset, then each URL counts for the first group with its groupId
updateGroupUrlCounts(gs, us) ==
    [i \in 1 .. Len(gs) |->
        [gs[i] EXCEPT !.urlCount =
            Cardinality({ j \in 1 .. Len(us) : FindIndexById(gs, us[j].groupId) = i })]]

\* variant of NeedsGroupFix: only an empty groupId is repaired
NeedsGroupFixEmptyOnly(u, gs) == u.groupId = ""

\* !url.groupId || !groups.find(g => g.id === url.groupId)
NeedsGroupFix(u, gs) == u.groupId = "" \/ ~GroupExists(gs, u.groupId)

\* one iteration of validateAndFixURLs: a plain record is replaced in the
\* array by URLDataModel.fromJSON(url), and the group fix that follows is
\* applied to the plain object the array no longer holds; a model instance is
\* fixed in place and validated
FixURL(u, gs, defaultGroupId) ==
    IF ~IsModel(u) THEN URLFromJSON(u)
    ELSE URLValidate(IF NeedsGroupFix(u, gs)
                     THEN [u EXCEPT !.groupId = defaultGroupId] ELSE u)

URLFixCount(u, gs) ==
    (IF IsModel(u) THEN 0 ELSE 1) + (IF NeedsGroupFix(u, gs) THEN 1 ELSE 0)

validateAndFixURLs(us, gs, defaultGroupId) ==
    [urls |-> [i \in 1 .. Len(us) |-> FixURL(us[i], gs, defaultGroupId)],
     fixedCount |-> SumSeq([i \in 1 .. Len(us) |-> URLFixCount(us[i], gs)])]

validateAndFixGroups(gs) ==
    [groups |-> [i \in 1 .. Len(gs) |->
                    IF IsModel(gs[i]) THEN GroupValidate(gs[i]) ELSE GroupFromJSON(gs[i])],
     fixedCount |-> Cardinality({ i \in 1 .. Len(gs) : ~IsModel(gs[i]) })]

validateAndFixDataIntegrity(gs, us, defaultGroupId) ==
    LET u == validateAndFixURLs(us, gs, defaultGroupId)
        g == validateAndFixGroups(gs)
    IN  [groups |-> updateGroupUrlCounts(g.groups, u.urls),
         urls |-> u.urls,
         urlsFixed |-> u.fixedCount,
         groupsFixed |-> g.fixedCount,
         hasChanges |-> (u.fixedCount > 0 \/ g.fixedCount > 0)]

---------------------------------------------------------------------------
(* BookmarkManager (popup.js)                                              *)

ensureDefaultGroupMetadata(g) ==
    [g EXCEPT !.isDefault = TRUE, !.protected = TRUE, !.name = "Ungrouped"]

initializeDefaultGroup(gs) ==
    LET d == FindIndexById(gs, "ungrouped")
    IN  IF d = 0 THEN <<createDefault>> \o gs
        ELSE [gs EXCEPT ![d] = ensureDefaultGroupMetadata(gs[d])]

\* variant of getDefaultGroupId: a missing default group is not created
getDefaultGroupIdNoCreate(gs) == gs

\* this.groups after getDefaultGroupId(): the default group is created when
\* it is missing; an existing one is left as it is
getDefaultGroupId(gs) ==
    IF FindIndexById(gs, "ungrouped") = 0 THEN initializeDefaultGroup(gs) ELSE gs

\* every GroupDataModel already has an order (data.order || 0), so no group
\* is found with an undefined order and nothing is assigned
initializeGroupOrders(gs) == gs

\* variant of saveData: nothing is written
saveDataSkipped(s, gs, us) == [store |-> s, failed |-> FALSE, error |-> ""]

\* saveData: saveDataToStorage with the error shown, never rethrown
saveData(s, gs, us) ==
    LET r == saveDataToStorage(s, gs, us)
    IN  [store |-> r.store, failed |-> r.error # "", error |-> r.error]

\* variant of loadData: the repaired lists are not saved
loadDataUnsaved(s) ==
    LET data == loadDataFromStorage(s)
        gs2 == getDefaultGroupId(Map(data.groups, GroupFromJSON))
        v == validateAndFixDataIntegrity(gs2, Map(data.urls, URLFromJSON), "ungrouped")
    IN  [groups |-> initializeGroupOrders(v.groups), urls |-> v.urls, data |-> data,
         hasChanges |-> v.hasChanges, store |-> s, error |-> ""]

\* loadData: load, convert to models, repair, save when something was fixed
loadData(s) ==
    LET data == loadDataFromStorage(s)
        gs1 == Map(data.groups, GroupFromJSON)
        us1 == Map(data.urls, URLFromJSON)
        gs2 == getDefaultGroupId(gs1)
        v == validateAndFixDataIntegrity(gs2, us1, "ungrouped")
        gs3 == initializeGroupOrders(v.groups)
        sv == saveData(s, gs3, v.urls)
    IN  [groups |-> gs3, urls |-> v.urls, data |-> data,
         hasChanges |-> v.hasChanges,
         store |-> IF v.hasChanges THEN sv.store ELSE s,
         error |-> IF v.hasChanges THEN sv.error ELSE ""]

canDeleteGroup(gs, id) ==
    LET i == FindIndexById(gs, id)
    IN  i # 0 /\ ~(gs[i].id = "ungrouped" \/ gs[i].isDefault \/ gs[i].protected)

\* Math.max(...this.groups.map(g => g.order || 0)) + 1
getNextGroupOrder(gs) ==
    IF gs = << >> THEN 1
    ELSE (CHOOSE m \in { gs[i].order : i \in 1 .. Len(gs) } :
              \A i \in 1 .. Len(gs) : gs[i].order <= m) + 1

\* positions of the non-default groups, sorted by order (a stable sort)
sortableGroups(gs) ==
    LET I == { i \in 1 .. Len(gs) : gs[i].id # "ungrouped" }
        Before(a, b) == gs[a].order < gs[b].order \/ (gs[a].order = gs[b].order /\ a < b)
    IN  [k \in 1 .. Cardinality(I) |->
            CHOOSE i \in I : Cardinality({ j \in I : Before(j, i) }) = k - 1]

\* an id generateUniqueId can return: one no group in memory has (the first
\* such id of the pool stands for all of them)
FreshGroupIds(gs) ==
    LET I == { i \in 1 .. (GroupSlots + 1) : ~GroupExists(gs, GroupIdPool[i]) }
    IN  { GroupIdPool[i] : i \in { j \in I : \A k \in I : j <= k } }

\* the addresses the URLs in memory have, as indices of AddressPool
UsedUrlNumbers(us) ==
    { k \in UrlNumbers : \E i \in 1 .. Len(us) : us[i].url = AddressPool[k] }

\* an address no URL in memory has (the first of the pool stands for all)
FreshUrlNumbers(us) ==
    LET I == UrlNumbers \ UsedUrlNumbers(us)
    IN  { k \in I : \A j \in I : k <= j }

---------------------------------------------------------------------------
(* Spec: one popup instance over a store with arbitrary persisted contents *)

MaxOrder == 3        \* group orders handed out by handleCreateGroup stop here

NamePool == {"n1"}

\* persisted (plain) records
StoredGroup(id, order) == GroupToJSON(NewGroup(id, id, order))
StoredURL(k, groupId) == URLToJSON(NewURL(k, "t", groupId))

\* g1 .. gn as persisted
StoredOthers(n) == [i \in 1 .. n |-> StoredGroup(GroupIdPool[i], i)]

\* a default group persisted without its flags
UnflaggedDefault ==
    [StoredGroup("ungrouped", 0) EXCEPT !.protected = FALSE, !.isDefault = FALSE]

\* persisted group lists: none, with and without the default group, the
\* default group not in front, the default group twice, the default group
\* without its flags, and more groups than there are slots
InitGroupLists ==
    { << >>, <<StoredGroup("g1", 1), StoredGroup("ungrouped", 0)>>,
      <<UnflaggedDefault>>,
      <<StoredGroup("ungrouped", 0), [StoredGroup("ungrouped", 0) EXCEPT !.name = "copy"]>> }
    \cup { <<StoredGroup("ungrouped", 0)>> \o StoredOthers(n) : n \in 0 .. GroupSlots }
    \cup { StoredOthers(n) : n \in 1 .. GroupSlots }

\* persisted URL lists: valid, empty and dangling group references
InitUrlLists ==
    { << >>,
      <<StoredURL(1, "ungrouped")>>,
      <<StoredURL(1, "gone")>>,
      <<StoredURL(1, "g1"), StoredURL(2, "ungrouped")>>,
      <<StoredURL(1, "g1"), StoredURL(2, "g1")>>,
      <<StoredURL(1, ""), StoredURL(2, "gone")>>,
      [k \in 1 .. UrlSlots |-> StoredURL(k, IF k = 1 THEN "g2" ELSE "g1")] }

\* the single-aggregate legacy shape
LegacyStore(gs, us) == [EmptyStore EXCEPT !.groups = <<gs>>, !.urls = <<us>>]

\* the chunked shape an earlier save left (default group missing when gs has none)
ChunkedStore(gs, us) == SetKeys(EmptyStore, StorageData(gs, us))

\* the older per-group shape: the groups under the key 'groups', the URLs
\* under urls0..urls31 (slot 0 the default group's, then one per group)
PerGroupStore(gs, us) == [EmptyStore EXCEPT !.groups = <<gs>>, !.urlsN = us]

PerGroupStores ==
    { PerGroupStore(<<StoredGroup("ungrouped", 0)>>, <<StoredURL(1, "ungrouped")>>),
      PerGroupStore(<<StoredGroup("ungrouped", 0), StoredGroup("g1", 1)>>,
                    <<StoredURL(1, "g1")>>) }

InitStores ==
    { s \in { EmptyStore }
            \cup { LegacyStore(gs, us) : gs \in InitGroupLists, us \in InitUrlLists }
            \cup { ChunkedStore(gs, us) : gs \in InitGroupLists, us \in InitUrlLists }
            \cup PerGroupStores :
        BytesInUse(s) <= QuotaRecords }

\* import files: valid ones with and without the default group, one with
\* more groups than slots, one with as many groups as slots and no default
\* group, one with more URLs than slots, and one that validateImportData
\* rejects
ImportFiles ==
    { [groups |-> <<StoredGroup("ungrouped", 0), StoredGroup("g1", 1)>>,
       urls |-> <<StoredURL(1, "g1"), StoredURL(2, "ungrouped")>>],
      [groups |-> <<StoredGroup("g2", 1)>>,
       urls |-> <<StoredURL(3, "g2")>>],
      [groups |-> StoredOthers(GroupSlots + 1),
       urls |-> << >>],
      [groups |-> StoredOthers(GroupSlots),
       urls |-> << >>],
      [groups |-> <<StoredGroup("ungrouped", 0)>>,
       urls |-> [k \in 1 .. (UrlSlots + 1) |-> StoredURL(k, "ungrouped")]],
      [groups |-> <<StoredGroup("ungrouped", 0), StoredGroup("g1", 1)>>,
       urls |-> [k \in 1 .. (UrlSlots + 1) |-> StoredURL(k, "g1")]],
      [groups |-> <<[StoredGroup("g1", 1) EXCEPT !.name = ""]>>,
       urls |-> <<StoredURL(1, "g1")>>] }

\* addresses that new URL(address) throws on: they name no scheme
SchemeLess == {"", "a1/page"}

\* new URL(url.url) does not throw
ParsesAsURL(address) == address \notin SchemeLess

\* variant of validateImportData: every file passes
validateImportDataLax(f) == TRUE

validateImportData(f) ==
    /\ \A i \in 1 .. Len(f.groups) : f.groups[i].id # "" /\ f.groups[i].name # ""
    /\ \A i \in 1 .. Len(f.urls) :
          /\ f.urls[i].id # "" /\ f.urls[i].url # "" /\ f.urls[i].title # ""
          /\ ParsesAsURL(f.urls[i].url)

\* the error validateImportData returns for a file it rejects: that of the
\* first record at fault, groups before URLs
ValidationError(f) ==
    IF \E i \in 1 .. Len(f.groups) : f.groups[i].id = "" \/ f.groups[i].name = ""
    THEN "Invalid group data: missing id or name"
    ELSE LET Bad == { i \in 1 .. Len(f.urls) :
                        \/ f.urls[i].id = "" \/ f.urls[i].url = "" \/ f.urls[i].title = ""
                        \/ ~ParsesAsURL(f.urls[i].url) }
             i == CHOOSE j \in Bad : \A h \in Bad : j <= h
         IN  IF f.urls[i].id = "" \/ f.urls[i].url = "" \/ f.urls[i].title = ""
             THEN "Invalid URL data: missing required fields"
             ELSE "Invalid URL format: " \o f.urls[i].url

Init ==
    /\ store \in InitStores
    /\ groups = << >>
    /\ urls = << >>
    /\ pc = "new"
    /\ lastOp = "constructor"
    /\ lastError = ""
    /\ loaded = NothingLoaded
    /\ prev = [store |-> EmptyStore, groups |-> << >>, urls |-> << >>]

\* init(): initializeDefaultGroup, then loadData
init ==
    /\ pc = "new"
    /\ \E r \in {loadData(store)} :
           /\ groups' = r.groups
           /\ urls' = r.urls
           /\ store' = r.store
           /\ loaded' = r.data
           /\ lastError' = r.error
           /\ lastOp' = IF ~r.hasChanges THEN "loadData"
                        ELSE IF r.error = "" THEN "loadData_repaired"
                        ELSE "loadData_repaired_quota"
    /\ pc' = "ready"
    /\ UNCHANGED prev

\* the popup is closed and opened again: a new BookmarkManager
Reopen ==
    /\ pc = "ready"
    /\ groups' = << >>
    /\ urls' = << >>
    /\ pc' = "new"
    /\ lastOp' = "constructor"
    /\ lastError' = ""
    /\ loaded' = NothingLoaded
    /\ UNCHANGED <<store, prev>>

\* a handler that returns before touching the data
Refused(op, message) ==
    /\ lastOp' = op
    /\ lastError' = message
    /\ UNCHANGED <<store, groups, urls, pc, loaded, prev>>

\* a handler that changed memory to (gs, us) and then called saveData
Mutated(op, gs, us) ==
    \E sv \in {saveData(store, gs, us)} :
        /\ groups' = gs
        /\ urls' = us
        /\ store' = sv.store
        /\ lastError' = sv.error
        /\ lastOp' = IF sv.failed THEN op \o "_quota" ELSE op \o "_ok"
        /\ UNCHANGED <<pc, loaded, prev>>

UrlLimitMessage == "Maximum number of URLs (400) reached. Please delete some URLs before adding new ones."
GroupLimitMessage == "Maximum number of groups (32) reached"

\* variant of captureCurrentTab: no search for a URL with the tab's address
captureCurrentTabUnchecked(k) ==
    /\ pc = "ready"
    /\ IF Len(urls) >= UrlSlots
       THEN Refused("captureCurrentTab_limit", UrlLimitMessage)
       ELSE IF k = 0
       THEN Refused("captureCurrentTab_invalid", "Invalid URL detected")
       ELSE Mutated("captureCurrentTab", getDefaultGroupId(groups),
                    <<URLValidate(NewURL(k, "t", "ungrouped"))>> \o urls)

\* captureCurrentTab: k = 0 is a tab whose address is not http(s)
captureCurrentTab(k) ==
    /\ pc = "ready"
    /\ IF Len(urls) >= UrlSlots
       THEN Refused("captureCurrentTab_limit", UrlLimitMessage)
       ELSE IF k = 0
       THEN Refused("captureCurrentTab_invalid", "Invalid URL detected")
       ELSE IF \E i \in 1 .. Len(urls) : urls[i].url = AddressPool[k]
       THEN Refused("captureCurrentTab_duplicate", "")
       ELSE LET gs == getDefaultGroupId(groups)
                newURL == URLValidate(NewURL(k, "t", "ungrouped"))
            IN  Mutated("captureCurrentTab", gs, <<newURL>> \o urls)

\* handleAddURL with the form's address k and the group chosen in the select
handleAddURL(k, groupId) ==
    /\ pc = "ready"
    /\ GroupExists(groups, groupId)
    /\ IF Len(urls) >= UrlSlots
       THEN Refused("handleAddURL_limit", UrlLimitMessage)
       ELSE IF \E i \in 1 .. Len(urls) : urls[i].url = AddressPool[k]
       THEN Refused("handleAddURL_invalid", "")
       ELSE Mutated("handleAddURL", groups,
                    <<URLValidate(NewURL(k, "t", groupId))>> \o urls)

\* upper/lower case aside, the name is in use by a group other than exceptId
NameTaken(gs, name, exceptId) ==
    \E i \in 1 .. Len(gs) : gs[i].name = name /\ gs[i].id # exceptId

\* variant of handleCreateGroup: checkGroupLimit is not asked
handleCreateGroupUnchecked(name) ==
    /\ pc = "ready"
    /\ IF name = "" \/ NameTaken(groups, name, "")
       THEN Refused("handleCreateGroup_invalid", "")
       ELSE /\ getNextGroupOrder(groups) <= MaxOrder
            /\ \E id \in FreshGroupIds(groups) :
                 Mutated("handleCreateGroup",
                         Append(groups, GroupValidate(NewGroup(id, name, getNextGroupOrder(groups)))),
                         urls)

handleCreateGroup(name) ==
    /\ pc = "ready"
    /\ IF name = "" \/ NameTaken(groups, name, "")
       THEN Refused("handleCreateGroup_invalid", "")
       ELSE IF Len(groups) >= GroupSlots
       THEN Refused("handleCreateGroup_limit", GroupLimitMessage)
       ELSE /\ getNextGroupOrder(groups) <= MaxOrder
            /\ \E id \in FreshGroupIds(groups) :
                 Mutated("handleCreateGroup", 
                         Append(groups, GroupValidate(NewGroup(id, name, getNextGroupOrder(groups)))),
                         urls)

\* editGroup opens the form for a group that is not protected; handleEditGroup
\* stores the new name
handleEditGroup(groupId, name) ==
    /\ pc = "ready"
    /\ GroupExists(groups, groupId)
    /\ LET i == FindIndexById(groups, groupId)
       IN  IF groups[i].protected
           THEN Refused("editGroup_protected", "Cannot edit this group. It is protected.")
           ELSE IF name = "" \/ NameTaken(groups, name, groupId)
           THEN Refused("handleEditGroup_invalid", "")
           ELSE Mutated("handleEditGroup",
                        [groups EXCEPT ![i] = GroupValidate([groups[i] EXCEPT !.name = name])],
                        urls)

\* deleteGroup, confirmed by the user
deleteGroup(groupId) ==
    /\ pc = "ready"
    /\ GroupExists(groups, groupId)
    /\ IF ~canDeleteGroup(groups, groupId)
       THEN Refused("deleteGroup_protected", "Cannot delete this group. It is protected.")
       ELSE LET InOtherGroup(u) == u.groupId # groupId
                OtherGroup(g) == g.id # groupId
            IN  Mutated("deleteGroup", Filter(groups, OtherGroup), Filter(urls, InOtherGroup))

\* handleDeleteURL, confirmed by the user
handleDeleteURL(urlId) ==
    /\ pc = "ready"
    /\ \E i \in 1 .. Len(urls) : urls[i].id = urlId
    /\ LET Other(u) == u.id # urlId
       IN  Mutated("handleDeleteURL", groups, Filter(urls, Other))

\* handleStartPageToggle: the setting changes and everything is saved
handleStartPageToggle ==
    /\ pc = "ready"
    /\ Mutated("handleStartPageToggle", groups, urls)

\* moveGroupUp (dir = -1) and moveGroupDown (dir = 1): swap the order with
\* the neighbour in the sorted list
moveGroup(groupId, dir) ==
    /\ pc = "ready"
    /\ GroupExists(groups, groupId)
    /\ LET i == FindIndexById(groups, groupId)
           sorted == sortableGroups(groups)
       IN  /\ ~(groups[i].protected \/ groups[i].id = "ungrouped")
           /\ LET cur == CHOOSE k \in 1 .. Len(sorted) : sorted[k] = i
              IN  /\ cur + dir >= 1
                  /\ cur + dir <= Len(sorted)
                  /\ LET t == sorted[cur + dir]
                     IN  Mutated(IF dir < 0 THEN "moveGroupUp" ELSE "moveGroupDown",
                                 [groups EXCEPT ![i].order = groups[t].order,
                                                ![t].order = groups[i].order],
                                 urls)

\* chrome.storage.sync.remove of both legacy keys, both markers and every slot
RemoveAllData(s) ==
    [RemoveSlots(RemoveLegacy(s), 0, 0) EXCEPT !.groupCount = Absent, !.urlCount = Absent]

\* variant of ReplaceToast: the toast never mentions the limits
ReplaceToastPlain(f) == "Data replaced successfully."

\* the toast processReplaceImport ends with
ReplaceToast(f) ==
    IF Len(f.urls) > UrlSlots \/ Len(f.groups) > GroupSlots
    THEN "Data replaced successfully (Limited to 400 URLs and 32 groups)."
    ELSE "Data replaced successfully."

\* processReplaceImport: replace memory by the file, clear the store, save,
\* reload, and show the toast
processReplaceImport(f) ==
    /\ pc = "ready"
    /\ IF ~validateImportData(f)
       THEN Refused("processReplaceImport_invalid",
                    "Import validation failed: " \o ValidationError(f))
       ELSE LET limitedUrls == SubSeq(f.urls, 1, Min(Len(f.urls), UrlSlots))
                limitedGroups == SubSeq(f.groups, 1, Min(Len(f.groups), GroupSlots))
                us == Map(limitedUrls, URLFromJSON)
                gs == initializeDefaultGroup(Map(limitedGroups, GroupFromJSON))
            IN  \E sv \in {saveData(RemoveAllData(store), gs, us)} :
                \E r \in {loadData(sv.store)} :
                /\ groups' = r.groups
                /\ urls' = r.urls
                /\ store' = r.store
                /\ loaded' = r.data
                /\ lastError' = ReplaceToast(f)
                /\ lastOp' = IF sv.failed THEN "processReplaceImport_quota"
                             ELSE "processReplaceImport_ok"
                /\ UNCHANGED <<pc, prev>>

\* variant of LegacyURLHelpersExported: the helpers are exported
LegacyURLHelpersPresent == TRUE

\* does window.FavURLUtils carry loadAllURLsFromStorage and saveURLsToStorage
\* (the export list of shared.js names neither)
LegacyURLHelpersExported == FALSE

\* r[f] || 0: a field that is missing counts as 0
FieldOrZero(r, f) == IF f \in DOMAIN r THEN r[f] ELSE 0

\* new Date(group.lastModified || group.created || 0)
GroupTime(g) ==
    IF FieldOrZero(g, "lastModified") # 0 THEN g.lastModified
    ELSE FieldOrZero(g, "created")

\* new Date(url.lastModified || url.timestamp || 0)
URLTime(u) ==
    IF FieldOrZero(u, "lastModified") # 0 THEN u.lastModified
    ELSE FieldOrZero(u, "timestamp")

\* the Map of mergeGroups / mergeUrls as the sequence of its entries in
\* insertion order; MapIndex is the position of a key, 0 when it is not there
MapIndex(m, key) ==
    LET I == { i \in 1 .. Len(m) : m[i].key = key }
    IN  IF I = {} THEN 0 ELSE CHOOSE i \in I : TRUE

\* map.set(key, record): a key that is there keeps its position
MapSet(m, e) ==
    IF MapIndex(m, e.key) = 0 THEN Append(m, e) ELSE [m EXCEPT ![MapIndex(m, e.key)] = e]

\* existing.forEach(record => map.set(key, record))
RECURSIVE MapFill(_, _)
MapFill(m, q) == IF q = << >> THEN m ELSE MapFill(MapSet(m, Head(q)), Tail(q))

\* variant of ImportedWins: the imported record wins a tie as well
ImportedWinsTies(importedTime, existingTime) == importedTime >= existingTime

\* if (importedTime > existingTime)
ImportedWins(importedTime, existingTime) == importedTime > existingTime

\* imported.forEach: a record whose key is there replaces the value only when
\* it is newer; a record whose key is not there is added
RECURSIVE MapMerge(_, _)
MapMerge(m, q) ==
    IF q = << >> THEN m
    ELSE LET e == Head(q)
             i == MapIndex(m, e.key)
         IN  MapMerge(IF i = 0 THEN Append(m, e)
                      ELSE IF ImportedWins(e.time, m[i].time) THEN [m EXCEPT ![i] = e]
                      ELSE m,
                      Tail(q))

\* Array.from(map.values())
MapValues(m) == [i \in 1 .. Len(m) |-> m[i].rec]

GroupEntries(q) ==
    [i \in 1 .. Len(q) |-> [key |-> q[i].id, time |-> GroupTime(q[i]), rec |-> q[i]]]

URLEntries(q) ==
    [i \in 1 .. Len(q) |->
        [key |-> <<q[i].url, q[i].title>>, time |-> URLTime(q[i]), rec |-> q[i]]]

\* mergeGroups: a Map keyed by id, filled with the existing groups and then
\* merged with the imported ones
mergeGroups(existing, imported) ==
    MapValues(MapMerge(MapFill(<< >>, GroupEntries(existing)), GroupEntries(imported)))

\* variant of mergeUrls: no matching, every imported URL is added
mergeUrlsAppending(existing, imported) == existing \o imported

\* mergeUrls: the same with the key `${url}|${title}`
mergeUrls(existing, imported) ==
    MapValues(MapMerge(MapFill(<< >>, URLEntries(existing)), URLEntries(imported)))

\* variant of processImport: the file replaces the live data
processImportReplacing(f) == processReplaceImport(f)

\* processImport (merge mode) of a file that passed validateImportData: it
\* reads the key 'groups', then calls FavURLUtils.loadAllURLsFromStorage; where
\* that is not a function the TypeError is caught and reported before anything
\* is written; where it is, the merged groups are set under the key 'groups',
\* the URLs go to the per-group keys, and the data is loaded again
processImport(f) ==
    /\ pc = "ready"
    /\ validateImportData(f)
    /\ IF ~LegacyURLHelpersExported
       THEN Refused("processImport_failed", "Import failed. Please try again.")
       ELSE \E merged \in {mergeGroups(IF store.groups = << >> THEN << >> ELSE store.groups[1],
                                        f.groups)} :
            \E written \in {[store EXCEPT !.groups = <<merged>>]} :
              IF BytesInUse(written) > QuotaRecords
              THEN Refused("processImport_failed", "Import failed. Please try again.")
              ELSE \E r \in {loadData(written)} :
                     /\ groups' = r.groups
                     /\ urls' = r.urls
                     /\ store' = r.store
                     /\ loaded' = r.data
                     /\ lastError' = r.error
                     /\ lastOp' = "processImport_ok"
                     /\ UNCHANGED <<pc, prev>>

Next ==
    \/ init
    \/ Reopen
    \/ \E k \in {0} \cup UsedUrlNumbers(urls) \cup FreshUrlNumbers(urls) : captureCurrentTab(k)
    \/ \E k \in UsedUrlNumbers(urls) \cup FreshUrlNumbers(urls), g \in GroupIds : handleAddURL(k, g)
    \/ \E n \in NamePool \cup {""} : handleCreateGroup(n)
    \/ \E g \in GroupIds, n \in NamePool : handleEditGroup(g, n)
    \/ \E g \in GroupIds : deleteGroup(g)
    \/ \E k \in UrlNumbers : handleDeleteURL(UrlIdPool[k])
    \/ handleStartPageToggle
    \/ \E g \in GroupIds, dir \in {-1, 1} : moveGroup(g, dir)
    \/ \E f \in ImportFiles : processReplaceImport(f)
    \/ \E f \in ImportFiles : processImport(f)

Spec == Init /\ [][Next]_vars

---------------------------------------------------------------------------
(* Claims about the codec, checked under CodecSpec                         *)

HasDefault(gs) == \E i \in DOMAIN gs : gs[i].id = "ungrouped"

LegacyAbsent(s) == s.groups = << >> /\ s.urls = << >>

\* no populated slot at or above the count markers
NoSlotBeyondCount(s) ==
    /\ \A i \in GroupIdx : i >= s.groupCount => s.group[i] = << >>
    /\ \A i \in UrlIdx : i >= s.urlCount => s.url[i] = << >>

C5_Original ==
    lastOp = "save_ok" => (LegacyAbsent(store) /\ NoSlotBeyondCount(store))

\* C5 amended: the same, for input lists that contain the default group.
C5_NoLegacyNoStale ==
    (lastOp = "save_ok" /\ HasDefault(groups))
    => (LegacyAbsent(store) /\ NoSlotBeyondCount(store))

\* a short list saved over a store that had every group slot populated and
\* the legacy keys as well
C5_Witness ==
    /\ pc = "saved" /\ HasDefault(groups)
    /\ Len(groups) < GroupSlots /\ Len(urls) < UrlSlots
    /\ prev.store.groups # << >> /\ prev.store.group[GroupSlots - 1] # << >>

\* the list saveDataToStorage keeps of an over-long input
TruncatedGroups(gs) ==
    LET d == FindIndexById(gs, "ungrouped")
        others == Filter(gs, NotUngrouped)
    IN  (IF d = 0 THEN << >> ELSE <<gs[d]>>)
        \o SubSeq(others, 1, Min(Len(others), GroupSlots - 1))

TruncatedURLs(us) == SubSeq(us, 1, Min(Len(us), UrlSlots))

\* C6: with more groups than slots a successful save stores the default group
\* in slot 0 and the first GroupSlots-1 other groups in order, with the count
\* marker clamped; with more URLs than slots it stores exactly the first
\* UrlSlots in order, marker clamped; and the save throws exactly when saving
\* the truncated lists would, so the excess alone never makes it raise.
C6_CapacityCeiling ==
    /\ (lastOp = "save_ok" /\ Len(groups) > GroupSlots)
       => /\ store.groupCount = GroupSlots
          /\ HasDefault(groups)
               => store.group[0] = <<GroupJSONIfModel(groups[FindIndexById(groups, "ungrouped")])>>
          /\ \A i \in 1 .. (GroupSlots - 1) :
               store.group[i] = <<GroupJSONIfModel(Filter(groups, NotUngrouped)[i])>>
    /\ (lastOp = "save_ok" /\ Len(urls) > UrlSlots)
       => /\ store.urlCount = UrlSlots
          /\ \A i \in UrlIdx : store.url[i] = <<URLJSONIfModel(urls[i + 1])>>
    /\ (lastOp \in {"save_ok", "save_quota"})
       => ((lastOp = "save_quota")
             <=> SaveFails(prev.store, TruncatedGroups(groups), TruncatedURLs(urls)))

\* an over-long group list with the default group not in front, saved
\* successfully
C6_Witness ==
    /\ lastOp = "save_ok"
    /\ Len(groups) > GroupSlots /\ HasDefault(groups) /\ groups[1].id # "ungrouped"

---------------------------------------------------------------------------
(* Claims about the popup instance, checked under Spec                     *)

\* the steps on which BookmarkManager.loadData has just completed
LoadCompleted ==
    lastOp \in {"loadData", "loadData_repaired", "loadData_repaired_quota",
                "processReplaceImport_ok", "processReplaceImport_quota"}

Ids(q) == { q[i].id : i \in 1 .. Len(q) }
IdSeq(q) == [i \in 1 .. Len(q) |-> q[i].id]

DefaultCount(gs) == Cardinality({ i \in 1 .. Len(gs) : gs[i].id = "ungrouped" })

\* C2: when loadData has completed, whatever the store held, every URL in
\* memory has the groupId of a group in memory.
C2_ReferentialIntegrity ==
    LoadCompleted => \A i \in 1 .. Len(urls) : GroupExists(groups, urls[i].groupId)

\* a load that found a URL pointing at a group the store does not hold
C2_Witness ==
    /\ lastOp = "loadData_repaired"
    /\ \E i \in 1 .. Len(loaded.urls) :
          /\ loaded.urls[i].groupId \notin Ids(loaded.groups) \cup {"", "ungrouped"}
          /\ urls[i].groupId = "ungrouped"

\* C3 as stated: once loadData has completed, for any persisted contents,
\* exactly one group in memory has id 'ungrouped', in every later state too.
C3_Original == pc = "ready" => DefaultCount(groups) = 1

\* C3 amended: once loadData has completed the default group is in memory in
\* every later state, and it is there exactly once whenever the last load did
\* not return the id 'ungrouped' more than once.
C3_DefaultGroup ==
    pc = "ready"
    => /\ DefaultCount(groups) >= 1
       /\ DefaultCount(loaded.groups) <= 1 => DefaultCount(groups) = 1

\* a store with no group at all was loaded, and a group was created afterwards
C3_Witness ==
    /\ pc = "ready" /\ lastOp = "handleCreateGroup_ok"
    /\ loaded.groups = << >>
    /\ DefaultCount(groups) = 1 /\ Len(groups) = 2

\* C4: when the set of saveDataToStorage is rejected for quota, the error is
\* the quota error and the store is as it was before the call.
C4_SaveAtomicOnQuota ==
    lastOp = "save_quota" => (lastError = QuotaMessage /\ store = prev.store)

\* C7: deleteGroup keeps every URL: the list is as long as before and each URL
\* of the deleted group is in the default group afterwards.
C7_DeleteKeepsURLs ==
    [][lastOp' \in {"deleteGroup_ok", "deleteGroup_quota"}
       => /\ Len(urls') = Len(urls)
          /\ \A i \in 1 .. Len(urls) :
               ~GroupExists(groups', urls[i].groupId)
               => \E j \in 1 .. Len(urls') :
                     urls'[j].id = urls[i].id /\ urls'[j].groupId = "ungrouped"]_vars

\* C8: when the save of handleAddURL, captureCurrentTab or handleCreateGroup
\* fails for quota, the groups and URLs in memory are as before the operation.
C8_QuotaLeavesMemory ==
    [][lastOp' \in {"handleAddURL_quota", "captureCurrentTab_quota", "handleCreateGroup_quota"}
       => (groups' = groups /\ urls' = urls)]_vars

\* the store holds both legacy keys and no chunk key
LegacyShape(s) ==
    /\ s.groups # << >> /\ s.urls # << >>
    /\ s.groupCount = Absent /\ s.urlCount = Absent
    /\ \A i \in GroupIdx : s.group[i] = << >>
    /\ \A i \in UrlIdx : s.url[i] = << >>

\* the store holds chunk keys only
ChunkedShape(s) == LegacyAbsent(s) /\ s.groupCount # Absent /\ s.urlCount # Absent

\* the step is the first save over a legacy store that succeeds: the save
\* loadData makes after a repair, or a save of the data as loaded
FirstSaveOfLegacy ==
    /\ LegacyShape(store)
    /\ lastOp' \in {"loadData_repaired", "handleStartPageToggle_ok"}

\* a load of the store after the step returns every record of the legacy
\* arrays (the URLs in their order), and the store is chunked
MigratedLossless ==
    /\ ChunkedShape(store')
    /\ Ids(store.groups[1]) \subseteq Ids(loadDataFromStorage(store').groups)
    /\ IdSeq(loadDataFromStorage(store').urls) = IdSeq(store.urls[1])
    /\ \A i \in 1 .. Len(store.urls[1]) :
          /\ loadDataFromStorage(store').urls[i].url = store.urls[1][i].url
          /\ loadDataFromStorage(store').urls[i].title = store.urls[1][i].title

\* the legacy arrays fit the slots: with the default group counted in, no more
\* groups than group slots, no id twice, and no more URLs than URL slots
LegacyFits(s) ==
    /\ Cardinality(Ids(s.groups[1]) \cup {"ungrouped"}) <= GroupSlots
    /\ Cardinality(Ids(s.groups[1])) = Len(s.groups[1])
    /\ Len(s.urls[1]) <= UrlSlots

C10_OneWay == [][ChunkedShape(store) => LegacyAbsent(store')]_vars

\* a merge import was attempted over a chunked store that holds groups and URLs
C10_Witness ==
    /\ lastOp = "processImport_failed"
    /\ ChunkedShape(store) /\ store.groupCount >= 2 /\ store.urlCount >= 1

---------------------------------------------------------------------------
(* Claims about the older per-group format and the protected default group *)

\* the steps on which a handler's saveData has just succeeded
SaveCompleted ==
    lastOp \in {"loadData_repaired", "captureCurrentTab_ok", "handleAddURL_ok",
                "handleCreateGroup_ok", "handleEditGroup_ok", "deleteGroup_ok",
                "handleDeleteURL_ok", "handleStartPageToggle_ok",
                "moveGroupUp_ok", "moveGroupDown_ok", "processReplaceImport_ok"}

\* every URL under the per-group keys of s is among the records us
PerGroupURLsIn(s, us) ==
    \A i \in 1 .. Len(s.urlsN) : \E j \in 1 .. Len(us) : us[j].id = s.urlsN[i].id

\* C11: the URLs the store holds under urls0..urls31 are returned by a load,
\* and a load of the store still returns them after the next save.
C11_PerGroupKept ==
    /\ LoadCompleted => PerGroupURLsIn(store, loaded.urls)
    /\ SaveCompleted => PerGroupURLsIn(store, loadDataFromStorage(store).urls)

\* C14: no deleteGroup, editGroup or handleEditGroup call removes the group
\* with id 'ungrouped' or changes its name, whatever flags it was loaded with.
C14_DefaultGroupKept ==
    [][(pc = "ready" /\ lastOp' \in {"deleteGroup_ok", "deleteGroup_quota",
                                       "deleteGroup_protected", "editGroup_protected",
                                       "handleEditGroup_ok", "handleEditGroup_quota",
                                       "handleEditGroup_invalid"})
       => /\ DefaultCount(groups') = DefaultCount(groups)
          /\ groups'[FindIndexById(groups', "ungrouped")].name
               = groups[FindIndexById(groups, "ungrouped")].name]_vars

---------------------------------------------------------------------------
(* PeerSpec: two instances save at the same time.  Each save is the three  *)
(* storage calls of saveDataToStorage, and the calls of the two interleave.*)
(* Here groups, urls and pc are functions of the instance, lastOp is the   *)
(* instance whose set ran last, loaded the load made after both saves.     *)

Peers == {"p1", "p2"}

\* what an instance holds in memory: the default group is there and the
\* lists are within capacity
PeerMemories ==
    { [groups |-> <<createDefault>>, urls |-> << >>],
      [groups |-> <<createDefault>>,
       urls |-> <<NewURL(1, "t", "ungrouped"), NewURL(3, "t", "ungrouped")>>],
      [groups |-> <<createDefault, NewGroup("g1", "g1", 1)>>,
       urls |-> <<NewURL(2, "t", "g1")>>],
      [groups |-> <<NewGroup("g2", "g2", 1), createDefault>>, urls |-> << >>] }

\* the store the two instances were opened on
PeerStores ==
    { EmptyStore,
      LegacyStore(<<StoredGroup("ungrouped", 0)>>, <<StoredURL(1, "ungrouped")>>),
      ChunkedStore(<<StoredGroup("ungrouped", 0), StoredGroup("g1", 1)>>,
                   <<StoredURL(1, "g1")>>) }

PeerInit ==
    /\ store \in PeerStores
    /\ \E m \in [Peers -> PeerMemories] :
          /\ groups = [p \in Peers |-> m[p].groups]
          /\ urls = [p \in Peers |-> m[p].urls]
    /\ pc = [p \in Peers |-> "remove_legacy"]
    /\ lastOp = "none"
    /\ lastError = ""
    /\ loaded = NothingLoaded
    /\ prev = [store |-> EmptyStore, groups |-> << >>, urls |-> << >>]

\* chrome.storage.sync.remove(['urls', 'groups']) of instance p
PeerRemoveLegacy(p) ==
    /\ pc[p] = "remove_legacy"
    /\ store' = RemoveLegacy(store)
    /\ pc' = [pc EXCEPT ![p] = "cleanup"]
    /\ UNCHANGED <<groups, urls, lastOp, lastError, loaded, prev>>

\* chrome.storage.sync.remove(cleanupKeys) of instance p
PeerCleanup(p) ==
    /\ pc[p] = "cleanup"
    /\ \E data \in {StorageData(groups[p], urls[p])} :
          store' = RemoveSlots(store, data.groupCount, data.urlCount)
    /\ pc' = [pc EXCEPT ![p] = "set"]
    /\ UNCHANGED <<groups, urls, lastOp, lastError, loaded, prev>>

\* chrome.storage.sync.set(storageData) of instance p, rejected over quota
PeerSet(p) ==
    /\ pc[p] = "set"
    /\ \E data \in {StorageData(groups[p], urls[p])} :
          IF QuotaExceeded(store, data)
          THEN /\ pc' = [pc EXCEPT ![p] = "failed"]
               /\ lastError' = QuotaMessage
               /\ UNCHANGED <<store, lastOp>>
          ELSE /\ store' = SetKeys(store, data)
               /\ pc' = [pc EXCEPT ![p] = "done"]
               /\ lastOp' = p
               /\ UNCHANGED lastError
    /\ UNCHANGED <<groups, urls, loaded, prev>>

\* loadDataFromStorage once both saves have ended
PeerLoad ==
    /\ \A p \in Peers : pc[p] \in {"done", "failed"}
    /\ loaded' = loadDataFromStorage(store)
    /\ pc' = [p \in Peers |-> IF pc[p] = "done" THEN "done_loaded" ELSE "failed_loaded"]
    /\ UNCHANGED <<store, groups, urls, lastOp, lastError, prev>>

PeerNext ==
    \/ \E p \in Peers : PeerRemoveLegacy(p)
    \/ \E p \in Peers : PeerCleanup(p)
    \/ \E p \in Peers : PeerSet(p)
    \/ PeerLoad

PeerSpec == PeerInit /\ [][PeerNext]_vars

\* C12: when both saves completed, in whatever order their calls ran, the
\* load returns the URLs of the instance whose set ran last, in order, and
\* its groups, each once, and nothing else.
C12_LastWriterWins ==
    (\A p \in Peers : pc[p] = "done_loaded")
    => /\ loaded.urls = Map(urls[lastOp], URLJSONIfModel)
       /\ Len(loaded.groups) = Len(groups[lastOp])
       /\ Range(loaded.groups) = Range(Map(groups[lastOp], GroupJSONIfModel))

\* p1 removed the unused slots before p2 wrote its longer lists and set
\* last: the store still holds p2's records above p1's count markers
C12_Witness ==
    /\ \A p \in Peers : pc[p] = "done_loaded"
    /\ lastOp = "p1"
    /\ Len(groups["p1"]) < Len(groups["p2"])
    /\ store.group[1] # << >> /\ store.url[0] # << >>
    /\ urls["p1"] = << >>

---------------------------------------------------------------------------
(* NotifySpec: one instance saves while a popup and a start page are open. *)
(* Every storage call that changes a key raises chrome.storage.onChanged   *)
(* in the open pages.  Here groups and urls are the saving instance's      *)
(* memory, pc its position and the saves it has started, and loaded maps   *)
(* each open page to the notifications it has not handled yet (queue),     *)
(* whether chunked data changed since it last loaded (owes) and whether it *)
(* has reloaded (reloaded).                                                *)

MaxSaves == 2

Instances == {"popup", "startPage"}

\* the changes object of onChanged: which kinds of key differ between s and t
Changes(s, t) ==
    [legacy |-> s.groups # t.groups \/ s.urls # t.urls,
     counts |-> s.groupCount # t.groupCount \/ s.urlCount # t.urlCount,
     slots |-> s.group # t.group \/ s.url # t.url]

\* the popup's listener: changes.urls || changes.groups
popupReacts(e) == e.legacy

\* the start page's listener: legacy keys, count markers, url### and group## keys
startPageReacts(e) == e.legacy \/ e.counts \/ e.slots

Reacts(x, e) == IF x = "popup" THEN popupReacts(e) ELSE startPageReacts(e)

\* the event is raised in every open page, when a key changed at all
Dispatch(ls, e) ==
    IF ~(e.legacy \/ e.counts \/ e.slots) THEN ls
    ELSE [x \in Instances |->
            [ls[x] EXCEPT !.queue = Append(@, e), !.owes = @ \/ e.counts \/ e.slots]]

NotifyInit ==
    /\ store \in PeerStores
    /\ \E m \in PeerMemories : groups = m.groups /\ urls = m.urls
    /\ pc = [step |-> "remove_legacy", saves |-> 1]
    /\ loaded = [x \in Instances |-> [queue |-> << >>, owes |-> FALSE, reloaded |-> FALSE]]
    /\ lastOp = "none"
    /\ lastError = ""
    /\ prev = [store |-> EmptyStore, groups |-> << >>, urls |-> << >>]

\* chrome.storage.sync.remove(['urls', 'groups']) of the saving instance
NotifyRemoveLegacy ==
    /\ pc.step = "remove_legacy"
    /\ store' = RemoveLegacy(store)
    /\ loaded' = Dispatch(loaded, Changes(store, store'))
    /\ pc' = [pc EXCEPT !.step = "cleanup"]
    /\ UNCHANGED <<groups, urls, lastOp, lastError, prev>>

\* chrome.storage.sync.remove(cleanupKeys) of the saving instance
NotifyCleanup ==
    /\ pc.step = "cleanup"
    /\ \E data \in {StorageData(groups, urls)} :
          store' = RemoveSlots(store, data.groupCount, data.urlCount)
    /\ loaded' = Dispatch(loaded, Changes(store, store'))
    /\ pc' = [pc EXCEPT !.step = "set"]
    /\ UNCHANGED <<groups, urls, lastOp, lastError, prev>>

\* chrome.storage.sync.set(storageData) of the saving instance
NotifySet ==
    /\ pc.step = "set"
    /\ \E data \in {StorageData(groups, urls)} :
          IF QuotaExceeded(store, data)
          THEN /\ lastError' = QuotaMessage
               /\ UNCHANGED <<store, loaded>>
          ELSE /\ store' = SetKeys(store, data)
               /\ loaded' = Dispatch(loaded, Changes(store, store'))
               /\ UNCHANGED lastError
    /\ pc' = [pc EXCEPT !.step = "done"]
    /\ UNCHANGED <<groups, urls, lastOp, prev>>

\* the user of the saving instance changes its lists and it saves again
NotifyEdit ==
    /\ pc.step = "done"
    /\ pc.saves < MaxSaves
    /\ \E m \in PeerMemories : groups' = m.groups /\ urls' = m.urls
    /\ pc' = [step |-> "remove_legacy", saves |-> pc.saves + 1]
    /\ UNCHANGED <<store, loaded, lastOp, lastError, prev>>

\* the onChanged listener of page x runs for its oldest notification; a
\* window.location.reload() discards the page's memory and loads the store
NotifyHandle(x) ==
    /\ loaded[x].queue # << >>
    /\ \E e \in {Head(loaded[x].queue)} :
          loaded' = [loaded EXCEPT ![x] =
                        [queue |-> Tail(loaded[x].queue),
                         owes |-> IF Reacts(x, e) THEN FALSE ELSE loaded[x].owes,
                         reloaded |-> loaded[x].reloaded \/ Reacts(x, e)]]
    /\ UNCHANGED <<store, groups, urls, pc, lastOp, lastError, prev>>

NotifyNext ==
    \/ NotifyRemoveLegacy
    \/ NotifyCleanup
    \/ NotifySet
    \/ NotifyEdit
    \/ \E x \in Instances : NotifyHandle(x)

NotifySpec == NotifyInit /\ [][NotifyNext]_vars

\* C13: an open page that has handled every notification it was sent has
\* reloaded since the last change of the chunked slots or the count markers
\* (nothing but a notification makes a page reload, so a page that owes a
\* reload with no notification left never reloads).
C13_ReloadOnChange ==
    \A x \in Instances : loaded[x].queue = << >> => ~loaded[x].owes

---------------------------------------------------------------------------
(* OrderSpec: reordering by drag and drop and by keyboard, in the popup     *)
(* (pc = "ready") and in the start page (pc = "startpage").  An order is a  *)
(* JavaScript number that is a multiple of 0.5; it is held doubled, so 2 is *)
(* the order 1 and 1 is 0.5.  A URL record without the field order is a URL *)
(* whose order is undefined; a NaN order is held the same way, since the    *)
(* code reads an order through (x.order || 0) only.                         *)

OrderGroups == 3     \* non-default groups in memory
OrderUrls == 3       \* URLs in the default group

Num(n) == 2 * n
Half == 1

HasOrder(r) == "order" \in DOMAIN r

\* (r.order || 0)
OrderOrZero(r) == IF HasOrder(r) THEN r.order ELSE 0

\* r.order = o
SetOrder(r, o) == [f \in DOMAIN r \cup {"order"} |-> IF f = "order" THEN o ELSE r[f]]

\* r.order = NaN
SetOrderNaN(r) == [f \in DOMAIN r \ {"order"} |-> r[f]]

\* filter(...).sort((a, b) => (a.order || 0) - (b.order || 0)): the positions
\* I of q by order, positions with equal orders in list order
SortedByOrder(q, I) ==
    LET Before(a, b) == \/ OrderOrZero(q[a]) < OrderOrZero(q[b])
                        \/ (OrderOrZero(q[a]) = OrderOrZero(q[b]) /\ a < b)
    IN  [k \in 1 .. Cardinality(I) |->
            CHOOSE i \in I : Cardinality({ j \in I : Before(j, i) }) = k - 1]

\* forEach((x, index) => x.order = index + first) over the sorted positions
Renumber(q, I, first) ==
    LET sorted == SortedByOrder(q, I)
        Index(i) == (CHOOSE k \in 1 .. Len(sorted) : sorted[k] = i) - 1
    IN  [i \in 1 .. Len(q) |-> IF i \in I THEN SetOrder(q[i], Num(Index(i) + first)) ELSE q[i]]

\* variant of normalizeURLOrdersInGroup: url.order = index
normalizeURLOrdersFromZero(us, groupId) ==
    Renumber(us, { i \in 1 .. Len(us) : us[i].groupId = groupId }, 0)

\* normalizeURLOrdersInGroup, the same in the popup and in DragDropManager
normalizeURLOrdersInGroup(us, groupId) ==
    Renumber(us, { i \in 1 .. Len(us) : us[i].groupId = groupId }, 1)

\* variant of normalizeGroupOrders: nothing is renumbered
normalizeGroupOrdersSkipped(gs) == gs

\* the popup's normalizeGroupOrders: every group but 'ungrouped'
normalizeGroupOrders(gs) ==
    Renumber(gs, { i \in 1 .. Len(gs) : gs[i].id # "ungrouped" }, 1)

\* DragDropManager.normalizeGroupOrders: every group that is not protected
DragDropManager_normalizeGroupOrders(gs) ==
    Renumber(gs, { i \in 1 .. Len(gs) : ~gs[i].protected }, 1)

\* variant of DropOrder: the halves are exchanged
DropOrderSwapped(target, isTopHalf) ==
    IF isTopHalf THEN target.order + Half ELSE target.order - Half

\* newOrder = target.order - 0.5 above the midpoint, target.order + 0.5 below
DropOrder(target, isTopHalf) ==
    IF isTopHalf THEN target.order - Half ELSE target.order + Half

\* the lists after URL x was dropped on URL t
URLReorderDrop(us, x, t, isTopHalf) ==
    LET ix == FindIndexById(us, x)
        it == FindIndexById(us, t)
        dragged == IF HasOrder(us[it]) THEN SetOrder(us[ix], DropOrder(us[it], isTopHalf))
                   ELSE SetOrderNaN(us[ix])
    IN  normalizeURLOrdersInGroup([us EXCEPT ![ix] = dragged], us[ix].groupId)

\* handleURLReorderDrop of the popup and of DragDropManager
handleURLReorderDrop(x, t, isTopHalf) ==
    /\ pc \in {"ready", "startpage"}
    /\ FindIndexById(urls, x) # 0 /\ FindIndexById(urls, t) # 0
    /\ x # t
    /\ urls[FindIndexById(urls, x)].groupId = urls[FindIndexById(urls, t)].groupId
    /\ Mutated("handleURLReorderDrop", groups, URLReorderDrop(urls, x, t, isTopHalf))

\* the groups after group d was dropped on group t in the popup
GroupReorderDrop(gs, d, t, isTopHalf) ==
    LET id == FindIndexById(gs, d)
        raw == DropOrder(gs[FindIndexById(gs, t)], isTopHalf)
        newOrder == IF raw <= 0 THEN Num(1) ELSE raw
    IN  normalizeGroupOrders([gs EXCEPT ![id].order = newOrder])

\* the popup's handleGroupReorderDrop; a header starts a drag only when the
\* group is not protected
handleGroupReorderDrop(d, t, isTopHalf) ==
    /\ pc = "ready"
    /\ GroupExists(groups, d) /\ GroupExists(groups, t)
    /\ d # t
    /\ ~groups[FindIndexById(groups, d)].protected
    /\ Mutated("handleGroupReorderDrop", GroupReorderDrop(groups, d, t, isTopHalf), urls)

\* DragDropManager.handleGroupReorderDrop of the start page; a header starts
\* a drag only when the group is not protected and not 'ungrouped'
DragDropManager_handleGroupReorderDrop(d, t, isTopHalf) ==
    /\ pc = "startpage"
    /\ GroupExists(groups, d) /\ GroupExists(groups, t)
    /\ d # t
    /\ ~groups[FindIndexById(groups, d)].protected /\ d # "ungrouped"
    /\ LET id == FindIndexById(groups, d)
           newOrder == DropOrder(groups[FindIndexById(groups, t)], isTopHalf)
       IN  Mutated("DragDropManager_handleGroupReorderDrop",
                   DragDropManager_normalizeGroupOrders([groups EXCEPT ![id].order = newOrder]),
                   urls)

\* orders the URLs of the default group can start with: 1, 2, 3 and 1.5
StartOrders == {Num(1), Num(2), Num(3), Num(1) + Half}

\* URL k of the default group as it can be in memory: its order undefined,
\* or one of the orders above
StartURLs(k) ==
    {NewURL(k, "t", "ungrouped")}
    \cup { SetOrder(NewURL(k, "t", "ungrouped"), o) : o \in StartOrders }

\* the lists a page starts with: either the default group with URLs in any
\* orders and one more group with a URL of its own, or several groups (the
\* default group with or without its flags) and one URL
OrderInitLists ==
    { [groups |-> <<createDefault, NewGroup("g1", "g1", Num(1))>>,
       urls |-> us \o <<NewURL(OrderUrls + 1, "t", "g1")>>] :
         us \in { q \in [1 .. OrderUrls -> UNION { StartURLs(k) : k \in 1 .. OrderUrls }] :
                     \A k \in 1 .. OrderUrls : q[k] \in StartURLs(k) } }
    \cup
    { [groups |-> <<d>> \o [i \in 1 .. OrderGroups |->
                               NewGroup(GroupIdPool[i], GroupIdPool[i], Num(i))],
       urls |-> <<NewURL(1, "t", "g1")>>] :
         d \in {createDefault, GroupFromJSON(UnflaggedDefault)} }

OrderInit ==
    /\ pc \in {"ready", "startpage"}
    /\ \E m \in OrderInitLists : groups = m.groups /\ urls = m.urls
    /\ store = EmptyStore
    /\ lastOp = "none"
    /\ lastError = ""
    /\ loaded = NothingLoaded
    /\ prev = [store |-> EmptyStore, groups |-> << >>, urls |-> << >>]

OrderUrlIds == { UrlIdPool[k] : k \in 1 .. (OrderUrls + 1) }
OrderGroupIds == {"ungrouped"} \cup { GroupIdPool[i] : i \in 1 .. OrderGroups }

OrderNext ==
    \/ \E x \in OrderUrlIds, t \in OrderUrlIds, h \in BOOLEAN : handleURLReorderDrop(x, t, h)
    \/ \E d \in OrderGroupIds, t \in OrderGroupIds, h \in BOOLEAN : handleGroupReorderDrop(d, t, h)
    \/ \E d \in OrderGroupIds, t \in OrderGroupIds, h \in BOOLEAN :
          DragDropManager_handleGroupReorderDrop(d, t, h)
    \/ \E g \in OrderGroupIds, dir \in {-1, 1} : moveGroup(g, dir)
    \/ \E g \in OrderGroupIds : deleteGroup(g)

OrderSpec == OrderInit /\ [][OrderNext]_vars

\* the positions I of q carry the orders 1..n, each once
DenseOrders(q, I) ==
    /\ \A i \in I : HasOrder(q[i])
    /\ { q[i].order : i \in I } = { Num(k) : k \in 1 .. Cardinality(I) }

OtherGroups(gs) == { i \in 1 .. Len(gs) : gs[i].id # "ungrouped" }
InGroup(us, groupId) == { i \in 1 .. Len(us) : us[i].groupId = groupId }

DefaultGroup(gs) == gs[FindIndexById(gs, "ungrouped")]

\* how many non-default groups carry each order
OrderCounts(gs) ==
    [o \in { gs[i].order : i \in OtherGroups(gs) } |->
        Cardinality({ i \in OtherGroups(gs) : gs[i].order = o })]

GroupDropOps ==
    {"handleGroupReorderDrop_ok", "handleGroupReorderDrop_quota",
     "DragDropManager_handleGroupReorderDrop_ok", "DragDropManager_handleGroupReorderDrop_quota"}

GroupMoveOps ==
    {"moveGroupUp_ok", "moveGroupUp_quota", "moveGroupDown_ok", "moveGroupDown_quota"}

URLDropOps == {"handleURLReorderDrop_ok", "handleURLReorderDrop_quota"}

C16_OrderingDensity ==
    [][\A x \in OrderUrlIds, t \in OrderUrlIds, h \in BOOLEAN :
          (lastOp' \in URLDropOps /\ handleURLReorderDrop(x, t, h))
          => DenseOrders(urls', InGroup(urls', urls[FindIndexById(urls, x)].groupId))]_vars

\* a drop was made among the three URLs of the default group, which now
\* carry 1..3, while the URL of the other group is still without an order
C16_Witness ==
    /\ lastOp \in URLDropOps
    /\ Cardinality(InGroup(urls, "ungrouped")) = OrderUrls
    /\ DenseOrders(urls, InGroup(urls, "ungrouped"))
    /\ \E i \in InGroup(urls, "g1") : ~HasOrder(urls[i])

\* the URLs at positions I carry whole orders, no two the same
DistinctIntegerOrders(us, I) ==
    /\ \A i \in I : HasOrder(us[i]) /\ us[i].order % Num(1) = 0
    /\ \A i \in I, j \in I : i # j => us[i].order # us[j].order

\* C17: when X is dropped on T and the group's URLs carry distinct whole
\* orders, afterwards X is immediately before T (upper half) or immediately
\* after T (lower half), and the other URLs of the group are in the relative
\* order they were in.
C17_DragPlacement ==
    [][\A x \in OrderUrlIds, t \in OrderUrlIds, h \in BOOLEAN :
          LET ix == FindIndexById(urls, x)
              it == FindIndexById(urls, t)
              I == InGroup(urls, urls[ix].groupId)
          IN  (/\ lastOp' \in URLDropOps
               /\ handleURLReorderDrop(x, t, h)
               /\ DistinctIntegerOrders(urls, I))
              => /\ DenseOrders(urls', I)
                 /\ IF h THEN urls'[ix].order + Num(1) = urls'[it].order
                         ELSE urls'[ix].order = urls'[it].order + Num(1)
                 /\ \A a \in I \ {ix}, b \in I \ {ix} :
                       (urls[a].order < urls[b].order) <=> (urls'[a].order < urls'[b].order)]_vars

\* [A=1, B=2, C=3] with C dropped above A: [C=1, A=2, B=3]
C17_Witness ==
    /\ lastOp \in URLDropOps
    /\ Len(urls) = OrderUrls + 1
    /\ HasOrder(urls[1]) /\ HasOrder(urls[2]) /\ HasOrder(urls[3])
    /\ urls[3].order = Num(1) /\ urls[1].order = Num(2) /\ urls[2].order = Num(3)


---------------------------------------------------------------------------
(* Claims about the two import modes, checked under Spec                   *)

\* a URL with the address and the title of u is among us
LiveHasURL(us, u) == \E i \in 1 .. Len(us) : us[i].url = u.url /\ us[i].title = u.title

\* what file f holds beyond the lists (gs0, us0) is in the lists (gs1, us1)
ImportedPresent(f, gs0, us0, gs1, us1) ==
    /\ \A i \in 1 .. Len(f.groups) :
          f.groups[i].id \notin Ids(gs0) => f.groups[i].id \in Ids(gs1)
    /\ \A i \in 1 .. Len(f.urls) :
          ~LiveHasURL(us0, f.urls[i]) => LiveHasURL(us1, f.urls[i])

MergeOps == {"processImport_ok", "processImport_failed"}

\* C18: after processImport of a valid file every group of the file whose id
\* was not live and every URL of the file whose address and title were not
\* live is in memory.
C18_MergeAddsNew ==
    [][\A f \in ImportFiles :
          (lastOp' \in MergeOps /\ processImport(f))
          => ImportedPresent(f, groups, urls, groups', urls')]_vars

ReplaceOps == {"processReplaceImport_ok", "processReplaceImport_quota"}

\* memory and a load of the store hold the file's groups, the default group
\* and the file's URLs, each once, and nothing else
Replicated(f, gs, us, s) ==
    LET ids == Ids(f.groups) \cup {"ungrouped"}
        data == loadDataFromStorage(s)
    IN  /\ Ids(gs) = ids /\ Len(gs) = Cardinality(ids)
        /\ Ids(us) = Ids(f.urls) /\ Len(us) = Len(f.urls)
        /\ Ids(data.groups) = ids /\ Len(data.groups) = Cardinality(ids)
        /\ Ids(data.urls) = Ids(f.urls) /\ Len(data.urls) = Len(f.urls)

LimitedToast == "Data replaced successfully (Limited to 400 URLs and 32 groups)."

\* what a replace import of f must leave when f exceeds a limit: the first
\* UrlSlots URLs of the file in the store, the warning in the toast, at most
\* GroupSlots groups in the store and the default group among them
TruncatedReplace(f, s, toast) ==
    LET data == loadDataFromStorage(s)
    IN  /\ Len(f.urls) > UrlSlots
           => /\ s.urlCount = UrlSlots
              /\ IdSeq(data.urls) = IdSeq(SubSeq(f.urls, 1, UrlSlots))
              /\ toast = LimitedToast
        /\ Len(f.groups) > GroupSlots
           => /\ Len(data.groups) <= GroupSlots
              /\ HasDefault(data.groups)

----------------------------------------------------------------------------
(* mergeGroups and mergeUrls as pure functions: the existing lists and the  *)
(* import file are drawn from bounded sets, and the file is merged in once  *)
(* and then once more.  groups and urls hold the lists, loaded the file,    *)
(* prev the lists before the last merge.  A timestamp is a number, 0 when   *)
(* the field is missing.                                                    *)

MaxTime == 2

\* the (lastModified, created) or (lastModified, timestamp) pairs of a record
Stamps == { st \in (0 .. MaxTime) \X (0 .. MaxTime) : st[1] = 0 \/ st[2] = 0 \/ st[2] < st[1] }

MergeGroupRecord(id, name, st) ==
    [id |-> id, name |-> name, lastModified |-> st[1], created |-> st[2]]

MergeURLRecord(id, url, title, st) ==
    [id |-> id, url |-> url, title |-> title, groupId |-> "ungrouped",
     lastModified |-> st[1], timestamp |-> st[2]]

\* the lists of the running instance: no two records share a key
ExistingGroupLists ==
    {<< >>}
    \cup { <<MergeGroupRecord("g1", "mine", st)>> : st \in Stamps }
    \cup { <<MergeGroupRecord("ungrouped", "Ungrouped", <<0, 0>>),
             MergeGroupRecord("g1", "mine", st)>> : st \in Stamps }

ExistingURLLists ==
    {<< >>}
    \cup { <<MergeURLRecord("u1", "https://a.example/", "A", st)>> : st \in Stamps }

\* the lists of the file: a record with the id of an existing group, the same
\* id twice, a new id
ImportedGroupLists ==
    { <<MergeGroupRecord("g1", "theirs", st)>> : st \in Stamps }
    \cup { <<MergeGroupRecord("g1", "theirs", st), MergeGroupRecord("g2", "new", <<0, 0>>)>> :
             st \in Stamps }
    \cup { <<MergeGroupRecord("g1", "theirs", st[1]), MergeGroupRecord("g1", "again", st[2])>> :
             st \in Stamps \X Stamps }

\* a URL with another id and the address and title of an existing one, the
\* same address under another title
ImportedURLLists ==
    { <<MergeURLRecord("u9", "https://a.example/", "A", st)>> : st \in Stamps }
    \cup { <<MergeURLRecord("u9", "https://a.example/", "A", st),
             MergeURLRecord("u8", "https://a.example/", "B", <<0, 0>>)>> : st \in Stamps }

MergeInit ==
    /\ groups \in ExistingGroupLists
    /\ urls \in ExistingURLLists
    /\ loaded \in [groups : ImportedGroupLists, urls : ImportedURLLists]
    /\ store = EmptyStore
    /\ pc = "input"
    /\ lastOp = "init"
    /\ lastError = ""
    /\ prev = [store |-> EmptyStore, groups |-> groups, urls |-> urls]

\* processImport's two merges, applied to the lists and the file
Merge ==
    /\ pc = "input"
    /\ groups' = mergeGroups(groups, loaded.groups)
    /\ urls' = mergeUrls(urls, loaded.urls)
    /\ prev' = [store |-> store, groups |-> groups, urls |-> urls]
    /\ pc' = "merged"
    /\ lastOp' = "merge"
    /\ UNCHANGED <<store, lastError, loaded>>

\* the same file merged into the result of the first merge
MergeAgain ==
    /\ pc = "merged"
    /\ groups' = mergeGroups(groups, loaded.groups)
    /\ urls' = mergeUrls(urls, loaded.urls)
    /\ prev' = [store |-> store, groups |-> groups, urls |-> urls]
    /\ pc' = "merged_twice"
    /\ lastOp' = "merge_again"
    /\ UNCHANGED <<store, lastError, loaded>>

MergeNext == Merge \/ MergeAgain

MergeSpec == MergeInit /\ [][MergeNext]_vars

\* C22: merging the same file a second time changes neither the groups nor
\* the URLs, and in particular adds no URL, also when the file's URL has
\* another id than the existing one with that address and title.
C22_MergeIdempotent ==
    lastOp = "merge_again" => /\ groups = prev.groups
                              /\ urls = prev.urls
                              /\ Len(urls) = Len(prev.urls)

\* the file's URL u9 has the address and title of the existing u1 and is
\* newer: the first merge put it in place of u1, the second left one record
C22_Witness ==
    /\ lastOp = "merge_again"
    /\ Len(urls) = 1 /\ urls[1].id = "u9"
    /\ Len(groups) = 3

\* the records of q with the key of record r (the id of a group, the address
\* and title of a URL)
SameGroup(q, r) == { i \in 1 .. Len(q) : q[i].id = r.id }
SameURL(q, r) == { i \in 1 .. Len(q) : q[i].url = r.url /\ q[i].title = r.title }

\* the outcome of one collision: the imported record when it is strictly
\* newer, the existing one otherwise
Resolved(e, i, eTime, iTime) == IF iTime > eTime THEN i ELSE e

\* C23: after a merge, for every existing record and imported record with the
\* same key (id for groups, address and title for URLs) the result holds
\* exactly one record with that key; when the imported record is the only one
\* of the file with that key, the record is the imported one if its timestamp
\* is strictly newer and the existing one otherwise (equal timestamps keep the
\* existing record); with several, the existing one unless one is newer.
C23_ConflictResolution ==
    lastOp = "merge" =>
        /\ \A e \in Range(prev.groups) :
              LET I == SameGroup(loaded.groups, e)
                  R == SameGroup(groups, e)
              IN  I # {} =>
                    /\ Cardinality(R) = 1
                    /\ \A i \in I, r \in R :
                          /\ I = {i} => groups[r] = Resolved(e, loaded.groups[i], GroupTime(e),
                                                             GroupTime(loaded.groups[i]))
                          /\ GroupTime(groups[r]) >= GroupTime(loaded.groups[i])
                          /\ GroupTime(groups[r]) >= GroupTime(e)
                    /\ (\A i \in I : GroupTime(loaded.groups[i]) <= GroupTime(e))
                          => \A r \in R : groups[r] = e
        /\ \A e \in Range(prev.urls) :
              LET I == SameURL(loaded.urls, e)
                  R == SameURL(urls, e)
              IN  I # {} =>
                    /\ Cardinality(R) = 1
                    /\ \A i \in I, r \in R :
                          urls[r] = Resolved(e, loaded.urls[i], URLTime(e), URLTime(loaded.urls[i]))

\* the imported group g1 was newer and replaced the existing one; the imported
\* URL had the timestamp of the existing one, which was kept
C23_Witness ==
    /\ lastOp = "merge"
    /\ Len(prev.groups) = 2 /\ GroupTime(prev.groups[2]) = 1
    /\ Len(groups) = 2 /\ groups[2].name = "theirs" /\ GroupTime(groups[2]) = 2
    /\ Len(loaded.urls) = 1 /\ URLTime(loaded.urls[1]) = 1
    /\ Len(urls) = 1 /\ urls[1].id = "u1" /\ URLTime(urls[1]) = 1

----------------------------------------------------------------------------
(* The import dialog: handleImportFile validates the file that was read,    *)
(* showImportConfirmation asks for the mode, and the confirm button runs    *)
(* processReplaceImport or processImport.                                   *)

\* files that validateImportData rejects: a group without id, a group without
\* name, a URL without id, a URL without title, a URL whose address names no
\* scheme (after a group and a URL that are in order)
InvalidImportFiles ==
    { [groups |-> <<[StoredGroup("g1", 1) EXCEPT !.id = ""]>>,
       urls |-> <<StoredURL(1, "ungrouped")>>],
      [groups |-> <<StoredGroup("ungrouped", 0), [StoredGroup("g1", 1) EXCEPT !.name = ""]>>,
       urls |-> <<StoredURL(1, "g1")>>],
      [groups |-> <<StoredGroup("g1", 1)>>,
       urls |-> <<[StoredURL(1, "g1") EXCEPT !.id = ""]>>],
      [groups |-> <<StoredGroup("g1", 1)>>,
       urls |-> <<StoredURL(1, "g1"), [StoredURL(2, "g1") EXCEPT !.title = ""]>>],
      [groups |-> <<StoredGroup("g1", 1)>>,
       urls |-> <<StoredURL(1, "g1"), [StoredURL(2, "g1") EXCEPT !.url = "a1/page"]>>] }

ImportModes == {"replace", "merge"}

\* handleImportFile with the parsed content f of the chosen file, and the mode
\* picked in the confirmation dialog when the file got that far
handleImportFile(f, mode) ==
    /\ pc = "ready"
    /\ IF ~validateImportData(f)
       THEN Refused("handleImportFile_invalid",
                    "Import validation failed: " \o ValidationError(f))
       ELSE IF mode = "replace" THEN processReplaceImport(f)
       ELSE processImport(f)

ImportNext ==
    \/ init
    \/ \E k \in UsedUrlNumbers(urls) \cup FreshUrlNumbers(urls) : captureCurrentTab(k)
    \/ \E n \in NamePool : handleCreateGroup(n)
    \/ \E f \in ImportFiles \cup InvalidImportFiles, mode \in ImportModes :
          handleImportFile(f, mode)

ImportSpec == Init /\ [][ImportNext]_vars

\* a group of the file lacks id or name, or a URL lacks id or title or has an
\* address that is not absolute
LacksRequired(f) ==
    \/ \E i \in 1 .. Len(f.groups) : f.groups[i].id = "" \/ f.groups[i].name = ""
    \/ \E i \in 1 .. Len(f.urls) :
          f.urls[i].id = "" \/ f.urls[i].title = "" \/ f.urls[i].url \in SchemeLess

\* C24: an import of a file in which a group lacks id or name, or a URL lacks
\* id or title or has an address that is not absolute, is rejected whole in
\* both modes: memory and store stay as they were and the toast reports the
\* failed validation.
C24_ImportAllOrNothing ==
    [][\A f \in ImportFiles \cup InvalidImportFiles, mode \in ImportModes :
          (LacksRequired(f) /\ handleImportFile(f, mode))
          => /\ UNCHANGED <<store, groups, urls>>
             /\ lastOp' = "handleImportFile_invalid"
             /\ lastError' = "Import validation failed: " \o ValidationError(f)]_vars

\* a file whose second URL has no scheme was rejected while the store and
\* memory held a group and a URL
C24_Witness ==
    /\ lastOp = "handleImportFile_invalid"
    /\ lastError = "Import validation failed: Invalid URL format: a1/page"
    /\ Len(groups) = 2 /\ Len(urls) = 1
    /\ store.groupCount = 2 /\ store.urlCount = 1

\* a URL in memory has the address of tab k
AlreadySaved(k) == \E i \in 1 .. Len(urls) : urls[i].url = AddressPool[k]

\* C25 as stated: a capture of a tab whose address a URL in memory has leaves
\* memory and store unchanged and reports the duplicate.
C25_Original ==
    [][\A k \in UrlNumbers :
          (AlreadySaved(k) /\ captureCurrentTab(k))
          => /\ UNCHANGED <<store, groups, urls>>
             /\ lastOp' = "captureCurrentTab_duplicate"]_vars

\* C25: a capture of a tab whose address a URL in memory has adds no record
\* and leaves memory and store unchanged; it reports the duplicate when
\* memory holds fewer URLs than the limit, and the reached limit otherwise.
C25_CaptureDuplicate ==
    [][\A k \in UrlNumbers :
          (AlreadySaved(k) /\ captureCurrentTab(k))
          => /\ UNCHANGED <<store, groups, urls>>
             /\ Len(urls) < UrlSlots => lastOp' = "captureCurrentTab_duplicate"
             /\ Len(urls) >= UrlSlots
                   => lastOp' = "captureCurrentTab_limit" /\ lastError' = UrlLimitMessage]_vars

\* the duplicate was reported with one URL in memory and in the store
C25_Witness ==
    /\ lastOp = "captureCurrentTab_duplicate"
    /\ Len(urls) = 1 /\ store.urlCount = 1

\* the outcomes of the interactive handlers that save, and of all of them
InteractiveSaved ==
    {"captureCurrentTab_ok", "handleAddURL_ok", "handleCreateGroup_ok", "handleEditGroup_ok",
     "deleteGroup_ok", "handleDeleteURL_ok", "handleStartPageToggle_ok",
     "moveGroupUp_ok", "moveGroupDown_ok"}

InteractiveOutcomes ==
    InteractiveSaved
    \cup {"captureCurrentTab_quota", "handleAddURL_quota", "handleCreateGroup_quota",
          "handleEditGroup_quota", "deleteGroup_quota", "handleDeleteURL_quota",
          "handleStartPageToggle_quota", "moveGroupUp_quota", "moveGroupDown_quota",
          "captureCurrentTab_limit", "captureCurrentTab_invalid", "captureCurrentTab_duplicate",
          "handleAddURL_limit", "handleAddURL_invalid", "handleCreateGroup_invalid",
          "handleCreateGroup_limit", "editGroup_protected", "handleEditGroup_invalid",
          "deleteGroup_protected"}

WithinLimits(gs, us) == Len(gs) <= GroupSlots /\ Len(us) <= UrlSlots

\* a load of store s returns every record of memory
NothingDropped(s, gs, us) ==
    LET data == loadDataFromStorage(s)
    IN  /\ IdSeq(data.urls) = IdSeq(us)
        /\ Len(data.groups) = Len(gs)
        /\ Ids(data.groups) = Ids(gs)

\* C26 as stated: after every interactive operation memory holds at most
\* GroupSlots groups and UrlSlots URLs, and a save that went through left every
\* record of memory in the store.
C26_Original ==
    [][(pc = "ready" /\ lastOp' \in InteractiveOutcomes)
          => /\ WithinLimits(groups', urls')
             /\ lastOp' \in InteractiveSaved => NothingDropped(store', groups', urls')]_vars

\* C26: no interactive operation adds a group to GroupSlots groups or more, or
\* a URL to UrlSlots URLs or more; from a memory within the limits every
\* interactive operation leads to a memory within the limits, and when that
\* memory held the id 'ungrouped' at most once a save that went through left
\* every record of memory in the store.
C26_RefusedAtCapacity ==
    [][(pc = "ready" /\ lastOp' \in InteractiveOutcomes)
          => /\ Len(groups) >= GroupSlots => Len(groups') <= Len(groups)
             /\ Len(urls) >= UrlSlots => Len(urls') <= Len(urls)
             /\ WithinLimits(groups, urls) => WithinLimits(groups', urls')
             /\ (/\ WithinLimits(groups, urls)
                 /\ DefaultCount(groups) <= 1
                 /\ lastOp' \in InteractiveSaved)
                => NothingDropped(store', groups', urls')]_vars

\* a capture was refused with both lists full
C26_Witness ==
    /\ lastOp = "captureCurrentTab_limit"
    /\ Len(urls) = UrlSlots /\ Len(groups) = GroupSlots

----------------------------------------------------------------------------
(* validateAndFixDataIntegrity as a pure function: the lists are drawn from *)
(* bounded sets, raw records and model instances alike, and the validator   *)
(* is applied to them.  prev holds the lists that went in.                  *)

\* the groupId of a URL record: empty, of no group, of a group, the default
ValidatorGroupRefs == {"", "gone", "g1", "ungrouped"}

\* a URL record as it comes from JSON, and as a model instance
ValidatorURLs ==
    { [StoredURL(1, "g1") EXCEPT !.groupId = ref] : ref \in ValidatorGroupRefs }
    \cup { [NewURL(1, "t", "g1") EXCEPT !.groupId = ref] : ref \in ValidatorGroupRefs }

ValidatorURLLists ==
    { <<u>> : u \in ValidatorURLs }
    \cup { <<u, [v EXCEPT !.id = UrlIdPool[2], !.url = AddressPool[2]]>> :
             u \in ValidatorURLs, v \in ValidatorURLs }

ValidatorGroupLists ==
    { <<createDefault>>,
      <<createDefault, NewGroup("g1", "g1", 1)>>,
      <<StoredGroup("ungrouped", 0), StoredGroup("g1", 1)>> }

ValidatorInit ==
    /\ groups \in ValidatorGroupLists
    /\ urls \in ValidatorURLLists
    /\ store = EmptyStore
    /\ loaded = NothingLoaded
    /\ pc = "input"
    /\ lastOp = "init"
    /\ lastError = ""
    /\ prev = [store |-> EmptyStore, groups |-> groups, urls |-> urls]

\* DataValidator.validateAndFixDataIntegrity(groups, urls, 'ungrouped'); a
\* second call finds what the first left
Validate ==
    /\ pc \in {"input", "fixed"}
    /\ \E r \in {validateAndFixDataIntegrity(groups, urls, "ungrouped")} :
          /\ groups' = r.groups
          /\ urls' = r.urls
          /\ lastOp' = IF r.hasChanges THEN "validateAndFixDataIntegrity_changes"
                       ELSE "validateAndFixDataIntegrity"
    /\ prev' = [store |-> store, groups |-> groups, urls |-> urls]
    /\ pc' = IF pc = "input" THEN "fixed" ELSE "fixed_twice"
    /\ UNCHANGED <<store, loaded, lastError>>

ValidatorNext == Validate

ValidatorSpec == ValidatorInit /\ [][ValidatorNext]_vars

\* C27: after validateAndFixDataIntegrity returns, every element of urls is a
\* model instance, and every one whose groupId was empty or the id of no group
\* of the input has the default group's id as its groupId.
C27_ValidatorRepairs ==
    pc = "fixed" =>
        \A i \in 1 .. Len(urls) :
            /\ IsModel(urls[i])
            /\ (prev.urls[i].groupId = "" \/ prev.urls[i].groupId \notin Ids(prev.groups))
                  => urls[i].groupId = "ungrouped"

\* C28: after loadData has completed, the group with id 'ungrouped' in memory
\* has isDefault = TRUE, protected = TRUE and the name 'Ungrouped', whatever
\* the persisted record held.
C28_DefaultCoerced ==
    LoadCompleted =>
        LET d == groups[FindIndexById(groups, "ungrouped")]
        IN  d.isDefault /\ d.protected /\ d.name = "Ungrouped"

\* C29: after a save that succeeded, slot 0 of the groups holds the default
\* group of the input wherever it stood there, and for every i below
\* GroupSlots - 1 the i-th group of the input that is not the default group is
\* in slot i + 1 (i counted from 0).
C29_SlotZeroDefault ==
    pc = "saved" =>
        LET d == FindIndexById(groups, "ungrouped")
            others == Filter(groups, NotUngrouped)
        IN  /\ d # 0 => /\ store.group[0] # << >>
                        /\ store.group[0][1].id = "ungrouped"
                        /\ store.group[0][1].name = groups[d].name
            /\ \A i \in 0 .. (GroupSlots - 2) :
                  i < Len(others) => /\ store.group[i + 1] # << >>
                                     /\ store.group[i + 1][1].id = others[i + 1].id

\* the default group stood last of three in the input and is in slot 0, the
\* first of the other groups in slot 1
C29_Witness ==
    /\ pc = "saved"
    /\ Len(groups) = 3 /\ groups[3].id = "ungrouped"
    /\ store.group[0] # << >> /\ store.group[0][1].id = "ungrouped"
    /\ store.group[1] # << >> /\ store.group[1][1].id = groups[1].id

----------------------------------------------------------------------------
(* loadDataFromStorage as a pure function of the store: every combination   *)
(* of count marker, populated slots and legacy key, per family.  The legacy *)
(* records differ from the slot records in name and title.                  *)

LegacyGroupArrays ==
    { << >>, << << >> >>, << <<StoredGroup("ungrouped", 0), StoredGroup("g1", 1)>> >> }

LegacyURLArrays ==
    { << >>, << << >> >>, << <<StoredURL(1, "g1")>> >> }

DetectStores ==
    { [groupCount |-> gc, urlCount |-> uc, groups |-> lg, urls |-> lu, urlsN |-> << >>,
       group |-> [i \in GroupIdx |-> IF i \in G THEN <<StaleGroup(i)>> ELSE << >>],
       url |-> [i \in UrlIdx |-> IF i \in U THEN <<StaleURL(i)>> ELSE << >>]] :
         gc \in {Absent} \cup (0 .. (GroupSlots + 1)),
         uc \in {Absent} \cup (0 .. (UrlSlots + 1)),
         G \in SUBSET GroupIdx, U \in SUBSET UrlIdx,
         lg \in LegacyGroupArrays, lu \in LegacyURLArrays }

DetectInit ==
    /\ store \in DetectStores
    /\ groups = << >>
    /\ urls = << >>
    /\ loaded = NothingLoaded
    /\ pc = "input"
    /\ lastOp = "init"
    /\ lastError = ""
    /\ prev = [store |-> EmptyStore, groups |-> << >>, urls |-> << >>]

\* StorageManager.loadDataFromStorage()
DetectLoad ==
    /\ pc = "input"
    /\ loaded' = loadDataFromStorage(store)
    /\ pc' = "loaded"
    /\ lastOp' = "loadDataFromStorage"
    /\ UNCHANGED <<store, groups, urls, lastError, prev>>

DetectNext == DetectLoad

DetectSpec == DetectInit /\ [][DetectNext]_vars

\* result was read from the slots: each of its records is in a slot, and each
\* populated slot below the marker is in it
ReadAsChunked(marker, slots, result) ==
    /\ \A k \in 1 .. Len(result) : \E i \in DOMAIN slots : slots[i] = <<result[k]>>
    /\ \A i \in DOMAIN slots :
          (i < marker /\ slots[i] # << >>) => \E k \in 1 .. Len(result) : result[k] = slots[i][1]

\* the detection for one family: from the slots when it counts as chunked,
\* else the legacy array as it is, else nothing
Detected(chunked, marker, slots, legacy, result) ==
    IF chunked THEN ReadAsChunked(marker, slots, result)
    ELSE IF legacy # << >> THEN result = legacy[1]
    ELSE result = << >>

\* C30 as stated: a family is read from its slots when its count marker or its
\* slot 0 exists, whatever the legacy key holds.
C30_Original ==
    pc = "loaded" =>
        /\ Detected(store.groupCount # Absent \/ store.group[0] # << >>,
                    store.groupCount, store.group, store.groups, loaded.groups)
        /\ Detected(store.urlCount # Absent \/ store.url[0] # << >>,
                    store.urlCount, store.url, store.urls, loaded.urls)

\* C30: groups and URLs are detected separately: a family is read from its
\* slots when its count marker is there and not 0 or its slot 0 is populated,
\* and then the legacy key is not looked at; otherwise the legacy array is
\* returned as it is, and nothing when there is none.
C30_FormatDetection ==
    pc = "loaded" =>
        /\ Detected((store.groupCount # Absent /\ store.groupCount # 0) \/ store.group[0] # << >>,
                    store.groupCount, store.group, store.groups, loaded.groups)
        /\ Detected((store.urlCount # Absent /\ store.urlCount # 0) \/ store.url[0] # << >>,
                    store.urlCount, store.url, store.urls, loaded.urls)

\* the groups came from the slots although the legacy key held groups, the
\* URLs from the legacy key next to a count marker of 0
C30_Witness ==
    /\ pc = "loaded"
    /\ store.groupCount = GroupSlots /\ store.groups # << >> /\ store.groups[1] # << >>
    /\ Len(loaded.groups) = GroupSlots /\ loaded.groups[1].name = "stale"
    /\ store.urlCount = 0 /\ store.urls # << >>
    /\ Len(loaded.urls) = 1 /\ loaded.urls[1].title = "t"

\* the populated slots below the marker and the family maximum
PopulatedBelow(marker, slots, maximum) ==
    { i \in DOMAIN slots : i < marker /\ i < maximum /\ slots[i] # << >> }

\* result holds exactly the records of those slots, in ascending slot order
ExactlyTheSlots(marker, slots, maximum, result) ==
    LET P == PopulatedBelow(marker, slots, maximum)
    IN  /\ Len(result) = Cardinality(P)
        /\ \A i \in P : result[Cardinality({ j \in P : j <= i })] = slots[i][1]

\* C31: for a family with a count marker of 1 or more, loadDataFromStorage
\* returns exactly the records of the populated slots with index below the
\* marker and below the family maximum, in ascending slot order; an absent
\* slot in that range is skipped.
C31_GapsTolerated ==
    pc = "loaded" =>
        /\ store.groupCount >= 1
              => ExactlyTheSlots(store.groupCount, store.group, GroupSlots, loaded.groups)
        /\ store.urlCount >= 1
              => ExactlyTheSlots(store.urlCount, store.url, UrlSlots, loaded.urls)

\* slot 0 of each family was absent and slot 1 populated, the URL marker
\* beyond the family maximum: the load returned the record of slot 1
C31_Witness ==
    /\ pc = "loaded"
    /\ store.groupCount = GroupSlots /\ store.group[0] = << >> /\ store.group[1] # << >>
    /\ Len(loaded.groups) >= 1 /\ loaded.groups[1] = store.group[1][1]
    /\ store.urlCount = UrlSlots + 1 /\ store.url[0] = << >> /\ store.url[1] # << >>
    /\ Len(loaded.urls) >= 1 /\ loaded.urls[1] = store.url[1][1]

\* a raw read of store s shows the default group and no URL whose groupId is
\* the id of no group
RepairedState(s) ==
    LET data == loadDataFromStorage(s)
    IN  /\ HasDefault(data.groups)
        /\ \A i \in 1 .. Len(data.urls) : data.urls[i].groupId \in Ids(data.groups)

RepairOutcomes == {"loadData_repaired", "loadData_repaired_quota"}

----------------------------------------------------------------------------
(* MoveSpec: a URL dropped on the header of another group, from the popup   *)
(* and from the start page.  Orders are held doubled as in OrderSpec.       *)

MaxURLOrder == 5     \* no drop is followed once it would give a greater order

\* Math.max(0, ...urls.filter(u => u.groupId === groupId).map(u => u.order || 0))
MaxOrderIn(us, groupId) ==
    LET O == {0} \cup { OrderOrZero(us[i]) : i \in { j \in 1 .. Len(us) : us[j].groupId = groupId } }
    IN  CHOOSE m \in O : \A o \in O : o <= m

\* the popup's handleURLToGroupDrop: the groupId changes, the order stays
handleURLToGroupDrop(x, targetGroupId) ==
    /\ pc = "ready"
    /\ FindIndexById(urls, x) # 0
    /\ GroupExists(groups, targetGroupId)
    /\ urls[FindIndexById(urls, x)].groupId # targetGroupId
    /\ Mutated("handleURLToGroupDrop", groups,
               [urls EXCEPT ![FindIndexById(urls, x)].groupId = targetGroupId])

\* DragDropManager.handleURLToGroupDrop of the start page: the groupId changes
\* first, so the URLs of the target group that are searched for the greatest
\* order include the dropped URL with the order it came with
DragDropManager_handleURLToGroupDrop(x, targetGroupId) ==
    /\ pc = "startpage"
    /\ FindIndexById(urls, x) # 0
    /\ GroupExists(groups, targetGroupId)
    /\ urls[FindIndexById(urls, x)].groupId # targetGroupId
    /\ LET ix == FindIndexById(urls, x)
           moved == [urls EXCEPT ![ix].groupId = targetGroupId]
           maxOrder == MaxOrderIn(moved, targetGroupId)
       IN  /\ maxOrder + Num(1) <= Num(MaxURLOrder)
           /\ Mutated("DragDropManager_handleURLToGroupDrop", groups,
                      [moved EXCEPT ![ix] = SetOrder(moved[ix], maxOrder + Num(1))])

MoveNext ==
    \/ \E x \in OrderUrlIds, g \in OrderGroupIds : handleURLToGroupDrop(x, g)
    \/ \E x \in OrderUrlIds, g \in OrderGroupIds : DragDropManager_handleURLToGroupDrop(x, g)

MoveSpec == OrderInit /\ [][MoveNext]_vars

ToGroupOps ==
    {"handleURLToGroupDrop_ok", "handleURLToGroupDrop_quota",
     "DragDropManager_handleURLToGroupDrop_ok", "DragDropManager_handleURLToGroupDrop_quota"}

----------------------------------------------------------------------------
(* KeySpec: the keyboard moves of the popup next to its reorder drops.      *)

\* tempOrder = url.order; url.order = targetURL.order; targetURL.order =
\* tempOrder, where either order can be undefined
SwapOrders(q, i, t) ==
    [q EXCEPT ![i] = IF HasOrder(q[t]) THEN SetOrder(q[i], q[t].order) ELSE SetOrderNaN(q[i]),
              ![t] = IF HasOrder(q[i]) THEN SetOrder(q[t], q[i].order) ELSE SetOrderNaN(q[t])]

\* the position in us of the URL next to x (dir = -1 before it, 1 after it)
\* among the URLs of its group sorted by order, 0 when there is none
NeighbourURL(us, x, dir) ==
    LET ix == FindIndexById(us, x)
        groupURLs == SortedByOrder(us, InGroup(us, us[ix].groupId))
        currentIndex == CHOOSE k \in 1 .. Len(groupURLs) : groupURLs[k] = ix
    IN  IF currentIndex + dir >= 1 /\ currentIndex + dir <= Len(groupURLs)
        THEN groupURLs[currentIndex + dir] ELSE 0

\* moveURLUp (dir = -1) and moveURLDown (dir = 1)
moveURL(x, dir) ==
    /\ pc = "ready"
    /\ FindIndexById(urls, x) # 0
    /\ NeighbourURL(urls, x, dir) # 0
    /\ Mutated(IF dir < 0 THEN "moveURLUp" ELSE "moveURLDown", groups,
               SwapOrders(urls, FindIndexById(urls, x), NeighbourURL(urls, x, dir)))

\* the lists a popup starts with: those of OrderSpec, and groups that were
\* persisted without an order, which all come out of the constructor with 0
KeyInitLists ==
    OrderInitLists
    \cup { [groups |-> <<createDefault, NewGroup("g1", "g1", 0), NewGroup("g2", "g2", 0)>>,
            urls |-> <<NewURL(1, "t", "g1")>>] }

KeyInit ==
    /\ pc = "ready"
    /\ \E m \in KeyInitLists : groups = m.groups /\ urls = m.urls
    /\ store = EmptyStore
    /\ lastOp = "none"
    /\ lastError = ""
    /\ loaded = NothingLoaded
    /\ prev = [store |-> EmptyStore, groups |-> << >>, urls |-> << >>]

KeyNext ==
    \/ \E x \in OrderUrlIds, dir \in {-1, 1} : moveURL(x, dir)
    \/ \E x \in OrderUrlIds, t \in OrderUrlIds, h \in BOOLEAN : handleURLReorderDrop(x, t, h)
    \/ \E g \in OrderGroupIds, dir \in {-1, 1} : moveGroup(g, dir)
    \/ \E d \in OrderGroupIds, t \in OrderGroupIds, h \in BOOLEAN : handleGroupReorderDrop(d, t, h)

KeySpec == KeyInit /\ [][KeyNext]_vars

\* the ids of the URLs of a group in the order they are shown
ShownURLs(us, groupId) ==
    LET sorted == SortedByOrder(us, InGroup(us, groupId))
    IN  [k \in 1 .. Len(sorted) |-> us[sorted[k]].id]

\* the ids of the groups other than 'ungrouped' in the order they are shown
ShownGroups(gs) ==
    LET sorted == sortableGroups(gs)
    IN  [k \in 1 .. Len(sorted) |-> gs[sorted[k]].id]

\* the id of the group next to g among the sortable groups, "" when none
NeighbourGroup(gs, g, dir) ==
    LET shown == ShownGroups(gs)
        K == { k \in 1 .. Len(shown) : shown[k] = g }
    IN  IF K = {} THEN ""
        ELSE LET k == CHOOSE j \in K : TRUE
             IN  IF k + dir >= 1 /\ k + dir <= Len(shown) THEN shown[k + dir] ELSE ""

\* the keyboard move of URL x left its group as the drop on its neighbour would
URLMoveAsDrag(x, dir) ==
    LET ix == FindIndexById(urls, x)
        n == NeighbourURL(urls, x, dir)
    IN  ShownURLs(urls', urls[ix].groupId)
          = ShownURLs(URLReorderDrop(urls, x, urls[n].id, dir < 0), urls[ix].groupId)

\* the keyboard move of group g left the groups as the drop on its neighbour would
GroupMoveAsDrag(g, dir) ==
    ShownGroups(groups')
      = ShownGroups(GroupReorderDrop(groups, g, NeighbourGroup(groups, g, dir), dir < 0))

\* every record at the positions I carries an order, a whole number, that no
\* other of them carries
DistinctWholeOrders(q, I) ==
    /\ \A i \in I : HasOrder(q[i]) /\ q[i].order % Num(1) = 0
    /\ \A i, j \in I : i # j => q[i].order # q[j].order

URLMoveOps == {"moveURLUp_ok", "moveURLUp_quota", "moveURLDown_ok", "moveURLDown_quota"}

\* C34: in any reachable state a keyboard move of a URL, or of a group,
\* leaves the same relative order as the drag of it above its predecessor,
\* or below its successor, followed by renormalization.
C34_KeyboardEqualsDrag ==
    [][/\ \A x \in OrderUrlIds, dir \in {-1, 1} :
             (lastOp' \in URLMoveOps /\ moveURL(x, dir)) => URLMoveAsDrag(x, dir)
       /\ \A g \in OrderGroupIds, dir \in {-1, 1} :
             (lastOp' \in GroupMoveOps /\ moveGroup(g, dir)) => GroupMoveAsDrag(g, dir)]_vars

\* the two agree wherever the URLs of the group, or the groups, carry
\* distinct whole-number orders
KeyboardEqualsDragOnDistinctOrders ==
    [][/\ \A x \in OrderUrlIds, dir \in {-1, 1} :
             (/\ lastOp' \in URLMoveOps
              /\ FindIndexById(urls, x) # 0
              /\ DistinctWholeOrders(urls, InGroup(urls, urls[FindIndexById(urls, x)].groupId))
              /\ moveURL(x, dir))
             => URLMoveAsDrag(x, dir)
       /\ \A g \in OrderGroupIds, dir \in {-1, 1} :
             (/\ lastOp' \in GroupMoveOps
              /\ DistinctWholeOrders(groups, OtherGroups(groups))
              /\ moveGroup(g, dir))
             => GroupMoveAsDrag(g, dir)]_vars

\* a URL was moved up by the keyboard within a group of three URLs with
\* distinct whole-number orders (a swap keeps the orders of the group, so
\* they were distinct whole numbers before the move too)
MovedWithDistinctOrders ==
    /\ lastOp = "moveURLUp_ok"
    /\ Cardinality(InGroup(urls, "ungrouped")) = OrderUrls
    /\ DistinctWholeOrders(urls, InGroup(urls, "ungrouped"))

----------------------------------------------------------------------------
(* TornSpec: one instance saves, in the three storage calls of              *)
(* saveDataToStorage, while another instance loads: the single get of       *)
(* loadDataFromStorage can run before, between and after the calls.  groups *)
(* and urls are the memory of the saving instance, pc the call it makes     *)
(* next, prev.store the store before the save, loaded what the other        *)
(* instance read last and lastOp the point at which it read.                *)

\* the stores the saving instance was opened on
TornStores ==
    { EmptyStore,
      LegacyStore(<<StoredGroup("ungrouped", 0)>>, <<StoredURL(1, "ungrouped")>>),
      LegacyStore(<<StoredGroup("ungrouped", 0)>>,
                  <<StoredURL(1, "ungrouped"), StoredURL(2, "ungrouped")>>),
      ChunkedStore(<<StoredGroup("ungrouped", 0)>>, <<StoredURL(1, "ungrouped")>>),
      ChunkedStore(<<StoredGroup("ungrouped", 0)>>,
                   <<StoredURL(1, "ungrouped"), StoredURL(2, "ungrouped")>>),
      ChunkedStore(<<StoredGroup("ungrouped", 0), StoredGroup("g1", 1)>>,
                   <<StoredURL(1, "g1")>>) }

\* the list q without its element k
Without(q, k) == [i \in 1 .. (Len(q) - 1) |-> IF i < k THEN q[i] ELSE q[i + 1]]

\* what the saving instance holds when it saves: what it loaded from the
\* store, with one URL deleted, one URL added, one group added, or as loaded
TornMemories(s) ==
    LET data == loadDataFromStorage(s)
        gs == getDefaultGroupId(Map(data.groups, GroupFromJSON))
        us == Map(data.urls, URLFromJSON)
    IN  {[groups |-> gs, urls |-> us]}
        \cup { [groups |-> gs, urls |-> Without(us, k)] : k \in 1 .. Len(us) }
        \cup { [groups |-> gs, urls |-> Append(us, NewURL(3, "t", "ungrouped"))] : k \in {1} }
        \cup { [groups |-> Append(gs, NewGroup("g2", "g2", 2)), urls |-> us] : k \in {1} }

TornInit ==
    /\ store \in TornStores
    /\ \E m \in TornMemories(store) : groups = m.groups /\ urls = m.urls
    /\ pc = "remove_legacy"
    /\ lastOp = "none"
    /\ lastError = ""
    /\ loaded = NothingLoaded
    /\ prev = [store |-> store, groups |-> << >>, urls |-> << >>]

\* chrome.storage.sync.remove(['urls', 'groups'])
TornRemoveLegacy ==
    /\ pc = "remove_legacy"
    /\ store' = RemoveLegacy(store)
    /\ pc' = "cleanup"
    /\ UNCHANGED <<groups, urls, lastOp, lastError, loaded, prev>>

\* chrome.storage.sync.remove(cleanupKeys)
TornCleanup ==
    /\ pc = "cleanup"
    /\ \E data \in {StorageData(groups, urls)} :
          store' = RemoveSlots(store, data.groupCount, data.urlCount)
    /\ pc' = "set"
    /\ UNCHANGED <<groups, urls, lastOp, lastError, loaded, prev>>

\* chrome.storage.sync.set(storageData), rejected over quota
TornSet ==
    /\ pc = "set"
    /\ \E data \in {StorageData(groups, urls)} :
          IF QuotaExceeded(store, data)
          THEN /\ lastError' = QuotaMessage
               /\ UNCHANGED store
          ELSE /\ store' = SetKeys(store, data)
               /\ UNCHANGED lastError
    /\ pc' = "done"
    /\ UNCHANGED <<groups, urls, lastOp, loaded, prev>>

\* loadDataFromStorage of the other instance: one get of every key
TornLoad ==
    /\ loaded' = loadDataFromStorage(store)
    /\ lastOp' = "load_before_" \o pc
    /\ UNCHANGED <<store, groups, urls, pc, lastError, prev>>

TornNext ==
    \/ TornRemoveLegacy
    \/ TornCleanup
    \/ TornSet
    \/ TornLoad

TornSpec == TornInit /\ [][TornNext]_vars

\* what a load returns before the save started and after it ended
BeforeSave == loadDataFromStorage(prev.store)
AfterSave == loadDataFromStorage(saveDataToStorage(prev.store, groups, urls).store)

SameLists(a, b) == a.groups = b.groups /\ a.urls = b.urls

URLIds(q) == { q[i].id : i \in 1 .. Len(q) }

\* C35: a load that runs while another instance is between the calls of
\* saveDataToStorage returns either what was stored before the save or what
\* is stored after it, and never misses a URL that is there both before and
\* after.
C35_NoTornRead ==
    lastOp # "none"
    => /\ SameLists(loaded, BeforeSave) \/ SameLists(loaded, AfterSave)
       /\ (URLIds(BeforeSave.urls) \cap URLIds(AfterSave.urls)) \subseteq URLIds(loaded.urls)

----------------------------------------------------------------------------
GroupIdsOf(q) == { q[i].id : i \in 1 .. Len(q) }

\* the store holds the whole of what processReplaceImport took from file f
HoldsImport(s, f) ==
    LET held == loadDataFromStorage(s)
        limitedUrls == SubSeq(f.urls, 1, Min(Len(f.urls), UrlSlots))
        limitedGroups == SubSeq(f.groups, 1, Min(Len(f.groups), GroupSlots))
    IN  /\ URLIds(held.urls) = URLIds(limitedUrls)
        /\ GroupIdsOf(limitedGroups) \subseteq GroupIdsOf(held.groups)

\* C36: when the save inside processReplaceImport is rejected for quota, the
\* store afterwards holds either what it held before the import or the whole
\* imported data, never nothing and never a part.
C36_ReplaceKeepsStore ==
    [][\A f \in ImportFiles :
          (/\ lastOp' = "processReplaceImport_quota"
           /\ validateImportData(f)
           /\ processReplaceImport(f))
          => \/ SameLists(loadDataFromStorage(store'), loadDataFromStorage(store))
             \/ HoldsImport(store', f)]_vars

\* C37: a second run of validateAndFixDataIntegrity, on what the first run
\* left, changes no record (in the fields that are persisted) and reports
\* hasChanges = false, that is urlsFixed = 0 and groupsFixed = 0.
C37_ValidatorIdempotent ==
    pc = "fixed_twice"
    => /\ lastOp = "validateAndFixDataIntegrity"
       /\ Map(urls, URLToJSON) = Map(prev.urls, URLToJSON)
       /\ Map(groups, GroupToJSON) = Map(prev.groups, GroupToJSON)

----------------------------------------------------------------------------
(* GroupOrderSpec: loadData on stores whose group records were persisted    *)
(* with and without an order.                                               *)

\* a persisted group without the field order
Orderless(g) == [f \in DOMAIN g \ {"order"} |-> g[f]]

\* group k as it can be persisted: not at all, with its order k, or without
PersistedGroup(k) ==
    { << >>, <<StoredGroup(GroupIdPool[k], k)>>, <<Orderless(StoredGroup(GroupIdPool[k], k))>> }

PersistedDefault ==
    { << >>, <<StoredGroup("ungrouped", 0)>>, <<Orderless(StoredGroup("ungrouped", 0))>> }

PersistedGroupLists ==
    { d \o a \o b : d \in PersistedDefault, a \in PersistedGroup(1), b \in PersistedGroup(2) }

PersistedURLLists ==
    { << >>, <<StoredURL(1, "ungrouped")>>, <<StoredURL(1, "g1")>>, <<StoredURL(1, "g2")>> }

GroupOrderStores ==
    { LegacyStore(gs, us) : gs \in PersistedGroupLists, us \in PersistedURLLists }
    \cup { ChunkedStore(gs, us) : gs \in PersistedGroupLists, us \in PersistedURLLists }

GroupOrderInit ==
    /\ store \in GroupOrderStores
    /\ groups = << >>
    /\ urls = << >>
    /\ pc = "new"
    /\ lastOp = "constructor"
    /\ lastError = ""
    /\ loaded = NothingLoaded
    /\ prev = [store |-> store, groups |-> << >>, urls |-> << >>]

\* loadData of a page that opens on the store
GroupOrderLoad ==
    /\ pc = "new"
    /\ \E r \in {loadData(store)} :
          /\ groups' = r.groups
          /\ urls' = r.urls
          /\ store' = r.store
          /\ loaded' = r.data
          /\ lastError' = r.error
    /\ pc' = "ready"
    /\ lastOp' = "loadData"
    /\ UNCHANGED prev

GroupOrderNext == GroupOrderLoad

GroupOrderSpec == GroupOrderInit /\ [][GroupOrderNext]_vars

\* C38: when loadData has completed, the default group has the order 0 and
\* every other group has an order of at least 1 that no other group has, also
\* when the persisted group records carry no order.
C38_GroupOrdersAfterLoad ==
    pc = "ready"
    => /\ DefaultGroup(groups).order = 0
       /\ \A i \in OtherGroups(groups) :
             /\ groups[i].order >= 1
             /\ \A j \in 1 .. Len(groups) : j # i => groups[j].order # groups[i].order

----------------------------------------------------------------------------
\* the family is read as chunked for its slot 0 alone: the slot is there and
\* the count marker is absent or 0
ChunkedBySlotZero(marker, slots) == slots[0] # << >> /\ CountOr(marker, 0) = 0

\* C39: when a family is detected as chunked only because its slot 0 exists
\* (the count marker is absent or 0), loadDataFromStorage returns at least the
\* record of slot 0 of that family, for the URLs as well as for the groups.
C39_SlotZeroReturned ==
    pc = "loaded"
    => /\ ChunkedBySlotZero(store.groupCount, store.group)
             => \E i \in 1 .. Len(loaded.groups) : loaded.groups[i] = store.group[0][1]
       /\ ChunkedBySlotZero(store.urlCount, store.url)
             => \E i \in 1 .. Len(loaded.urls) : loaded.urls[i] = store.url[0][1]
====
